---- MODULE Spec2Model ----
(***************************************************************************)
(* Model of the SRT translation pipeline of                                *)
(* tools/session-helper/srt_translator.py: the timestamp conversions       *)
(* (parse_timestamp, format_timestamp), the subtitle codec (parse_srt,     *)
(* generate_srt), the batch planner (create_batches), the response parser  *)
(* (parse_translation_response), and the translate command with its        *)
(* session checks and its per-batch retry loop.                            *)
(*                                                                         *)
(* A Python str is a sequence of one-character strings; the byte-order     *)
(* mark U+FEFF is the symbol BOM.  An Optional[str] is a sequence of       *)
(* length 0 (None) or 1 (the string).                                      *)
(***************************************************************************)
EXTENDS Integers, Sequences, FiniteSets, TLC

VARIABLES
    codec_pc,       \* codec round trip: "input", "serialized", "parsed"; reading
                    \* a document: "document", "read"
    codec_cues,     \* the cue list handed to generate_srt
    codec_use,      \* the use_translated argument
    codec_doc,      \* the document generate_srt returned
    codec_parsed,   \* the cue list parse_srt returned for codec_doc
    codec_blocks,   \* the blocks a document to read was written from
    codec_warnings  \* the warnings parse_srt printed, in order

VARIABLES
    plan_pc,        \* batch planner: "input", "planned"
    plan_cues,      \* the cue list handed to create_batches (cue identities)
    plan_batch_size,
    plan_context_size,
    plan_batches    \* the batch list create_batches returned

VARIABLES
    resp_pc,        \* response parser: "input", "parsed"
    resp_text,      \* the response argument
    resp_expected,  \* the expected_count argument
    resp_result     \* what parse_translation_response did: returned or raised

VARIABLES
    run_pc,             \* translate command: "load", "start", "request", "waiting",
                    \* "apply", "generate", "done", "exit" (sys.exit(1)),
                    \* "crashed" (an uncaught exception ended the process)
    run_content,        \* the text of the input file
    run_batch_size,
    run_context_size,
    run_cues,           \* the cue list parse_srt returned
    run_batches,        \* the batch list; a batch's lists hold positions of cues
    run_cur,            \* the position in batches of the for loop of translate
    run_attempt,        \* the loop variable of translate_batch_with_retry
    run_inflight,       \* the batches with a provider request not yet answered
    run_translations,   \* what translate_batch_with_retry returned for cur
    run_failed_batches, \* the counter of cues that kept their source text
    run_output_content, \* the document written to the output file, or None
    run_calls,          \* history: per batch, whether each provider call gave text
    run_parser_runs,    \* history: per batch, the runs of the response parser
    run_fallback,       \* history: the batches whose retries were exhausted
    run_returned,       \* history: per applied batch, the translations applied
    run_failed_in,      \* history: per applied batch, its increments of failed_batches
    run_session,        \* the session file as load_session finds it
    run_responses,      \* history: per batch, the response handed to the parser
    run_delays,         \* history: per batch, the seconds slept before each attempt
    run_summary,        \* the counts translate prints at its end, or None
    run_prompt,         \* the local prompt of translate_batch_with_retry, or None
    run_sent,           \* history: per batch, the prompt of each provider call
    run_phases,         \* history: per batch, the steps it has gone through
    prompt_pc,          \* build_translation_prompt: "input", "built"
    prompt_batch,       \* the batch, its lists holding the cues themselves
    prompt_lang,        \* target_lang
    prompt_text,        \* the prompt returned
    call_pc,            \* translate_with_chatgpt: "input", "returned"
    call_proc,          \* how subprocess.run of curl ended, with its stdout
    call_result,        \* the value returned and the error printed
    oauth_pc,           \* chatgpt_oauth_flow: "start", "waiting", "received",
                        \* "exchange", "returned", "crashed"
    oauth_port,         \* the redirect port: "free", "busy", "taken" (bound by
                        \* another process after the check)
    oauth_timeout,      \* timeout_seconds
    oauth_elapsed,      \* time.time() - start_time, in seconds
    oauth_state,        \* the state generated for this flow
    oauth_server,       \* callback_code, callback_state, callback_error and
                        \* callback_received of the server
    oauth_result,       \* the value returned
    oauth_token_requests, \* history: the requests made to the token URL
    oauth_callback,     \* history: the request that set callback_received
    oauth_timed_out     \* history: the loop ended with the timeout

VARIABLES
    time_pc,        \* timestamp conversions: "ms_input", "formatted", "ts_input",
                    \* "parsed", "done"
    time_ms_in,     \* the argument of format_timestamp
    time_ts_in,     \* the argument of parse_timestamp
    time_ms_out,    \* what parse_timestamp did: returned or raised
    time_ts_out     \* what format_timestamp returned

time_vars == <<time_pc, time_ms_in, time_ts_in, time_ms_out, time_ts_out>>

codec_vars == <<codec_pc, codec_cues, codec_use, codec_doc, codec_parsed, codec_blocks,
                codec_warnings>>

plan_vars == <<plan_pc, plan_cues, plan_batch_size, plan_context_size, plan_batches>>

resp_vars == <<resp_pc, resp_text, resp_expected, resp_result>>

run_vars == <<run_pc, run_content, run_batch_size, run_context_size, run_cues, run_batches, run_cur, run_attempt,
              run_inflight, run_translations, run_failed_batches, run_output_content, run_calls,
              run_parser_runs, run_fallback, run_returned, run_failed_in, run_session,
              run_responses, run_delays, run_summary, run_prompt, run_sent, run_phases>>

prompt_vars == <<prompt_pc, prompt_batch, prompt_lang, prompt_text>>

call_vars == <<call_pc, call_proc, call_result>>

oauth_vars == <<oauth_pc, oauth_port, oauth_timeout, oauth_elapsed, oauth_state, oauth_server,
                oauth_result, oauth_token_requests, oauth_callback, oauth_timed_out>>

vars == <<time_vars, codec_vars, plan_vars, resp_vars, run_vars, prompt_vars, call_vars, oauth_vars>>

\* ------------------------------------------------------------------------
\* Characters and the str methods the code uses
\* ------------------------------------------------------------------------

BOM == "BOM"
CR == "\r"
LF == "\n"

\* The characters of the model's alphabet that str.strip() and \s treat as
\* whitespace.
Whitespace == {" ", "\t", "\n", "\r"}

DigitChars == <<"0", "1", "2", "3", "4", "5", "6", "7", "8", "9">>

Digits == {DigitChars[i] : i \in 1..10}

DigitVal(c) == (CHOOSE i \in 1..10 : DigitChars[i] = c) - 1

None == <<>>

Some(s) == <<s>>

\* Python truthiness of an Optional[str]: None and "" are falsy.
Truthy(opt) == opt # None /\ opt[1] # <<>>

\* s[a:] for 1-based a.
From(s, a) == SubSeq(s, a, Len(s))

\* str.strip()
Strip(s) ==
    LET keep == {i \in 1..Len(s) : s[i] \notin Whitespace}
    IN IF keep = {} THEN <<>>
       ELSE SubSeq(s, CHOOSE i \in keep : \A j \in keep : i <= j,
                      CHOOSE i \in keep : \A j \in keep : j <= i)

Min(S) == CHOOSE x \in S : \A y \in S : x <= y

Max(S) == CHOOSE x \in S : \A y \in S : y <= x

\* str.startswith(p)
StartsWith(s, p) == Len(s) >= Len(p) /\ SubSeq(s, 1, Len(p)) = p

\* str.split(c) for a one-character separator: always at least one piece.
RECURSIVE Split(_, _)
Split(s, c) ==
    IF \A i \in 1..Len(s) : s[i] # c THEN <<s>>
    ELSE LET i == CHOOSE i \in 1..Len(s) : s[i] = c /\ \A j \in 1..(i - 1) : s[j] # c
         IN <<SubSeq(s, 1, i - 1)>> \o Split(From(s, i + 1), c)

\* sep.join(parts)
RECURSIVE Join(_, _)
Join(parts, sep) ==
    IF parts = <<>> THEN <<>>
    ELSE IF Len(parts) = 1 THEN parts[1]
    ELSE parts[1] \o sep \o Join(Tail(parts), sep)

\* str(n) for n >= 0
RECURSIVE Str(_)
Str(n) == IF n < 10 THEN <<DigitChars[n + 1]>>
          ELSE Str(n \div 10) \o <<DigitChars[(n % 10) + 1]>>

\* f"{n:0{w}d}" for n >= 0: zero-padded to at least w digits, never cut.
Pad(n, w) ==
    LET d == Str(n)
    IN IF Len(d) >= w THEN d
       ELSE [i \in 1..w |-> IF i <= w - Len(d) THEN "0" ELSE d[i - (w - Len(d))]]

\* int(s) of a run of decimal digits
RECURSIVE DigitsVal(_)
DigitsVal(s) == IF s = <<>> THEN 0
                ELSE DigitsVal(SubSeq(s, 1, Len(s) - 1)) * 10 + DigitVal(s[Len(s)])

AllDigits(s) == \A i \in 1..Len(s) : s[i] \in Digits

\* int(s) accepts an optional sign and a non-empty run of digits (after
\* stripping); anything else raises ValueError.
IsInt(s) ==
    LET t == Strip(s)
    IN \/ (t # <<>> /\ AllDigits(t))
       \/ (Len(t) >= 2 /\ t[1] \in {"+", "-"} /\ AllDigits(Tail(t)))

IntOf(s) ==
    LET t == Strip(s)
    IN IF t[1] = "-" THEN 0 - DigitsVal(Tail(t))
       ELSE IF t[1] = "+" THEN DigitsVal(Tail(t))
       ELSE DigitsVal(t)

\* ------------------------------------------------------------------------
\* Subtitle codec
\* ------------------------------------------------------------------------

Cue(index, start_time, end_time, text) ==
    [index |-> index, start_time |-> start_time, end_time |-> end_time,
     text |-> text, translated_text |-> None]

\* A conversion that leaves the milliseconds out.
parse_timestamp_whole_seconds(ts) ==
    LET t == Strip(ts)
    IN (DigitsVal(SubSeq(t, 1, 2)) * 3600 + DigitsVal(SubSeq(t, 4, 5)) * 60
           + DigitsVal(SubSeq(t, 7, 8))) * 1000

\* timestamp.replace(".", ",")
PeriodToComma(s) == [i \in 1..Len(s) |-> IF s[i] = "." THEN "," ELSE s[i]]

\* re.match(r"(\d{2}):(\d{2}):(\d{2}),(\d{3})", timestamp.strip()): a
\* match of the first twelve characters; what follows them is not looked at.
TimestampMatches(ts) ==
    LET t == Strip(PeriodToComma(ts))
    IN /\ Len(t) >= 12
       /\ \A i \in {1, 2, 4, 5, 7, 8, 10, 11, 12} : t[i] \in Digits
       /\ t[3] = ":" /\ t[6] = ":" /\ t[9] = ","

parse_timestamp(ts) ==
    LET t == Strip(PeriodToComma(ts))
        hours == DigitsVal(SubSeq(t, 1, 2))
        minutes == DigitsVal(SubSeq(t, 4, 5))
        seconds == DigitsVal(SubSeq(t, 7, 8))
        millis == DigitsVal(SubSeq(t, 10, 12))
    IN (hours * 3600 + minutes * 60 + seconds) * 1000 + millis

format_timestamp(ms) ==
    LET total_seconds == ms \div 1000
        millis == ms % 1000
        hours == total_seconds \div 3600
        minutes == (total_seconds % 3600) \div 60
        seconds == total_seconds % 60
    IN Pad(hours, 2) \o <<":">> \o Pad(minutes, 2) \o <<":">> \o Pad(seconds, 2)
       \o <<",">> \o Pad(millis, 3)

\* content.replace("\r\n", "\n").replace("\r", "\n"): a carriage return in
\* front of a line feed goes, every other one becomes a line feed.
NormalizeNewlines(s) ==
    LET pairs == [i \in 1..Len(s) |-> <<s[i], IF i < Len(s) THEN s[i + 1] ELSE "">>]
        Kept(p) == p # <<CR, LF>>
        kept == SelectSeq(pairs, Kept)
    IN [i \in 1..Len(kept) |-> IF kept[i][1] = CR THEN LF ELSE kept[i][1]]

\* if content.startswith("\ufeff"): content = content[1:]
RemoveBOM(s) == IF s # <<>> /\ s[1] = BOM THEN Tail(s) ELSE s

\* For a line feed at p: the last line feed of the whitespace run that
\* follows it (the end of the longest match of \n\s*\n at p), 0 if none.
SepEnd(s, p) ==
    LET nonws == {j \in (p + 1)..Len(s) : s[j] \notin Whitespace}
        e == IF nonws = {} THEN Len(s) ELSE Min(nonws) - 1
        lfs == {q \in (p + 1)..e : s[q] = LF}
    IN IF lfs = {} THEN 0 ELSE Max(lfs)

\* re.split(r"\n\s*\n", s)
RECURSIVE SplitBlocks(_)
SplitBlocks(s) ==
    LET starts == {p \in 1..Len(s) : s[p] = LF /\ SepEnd(s, p) # 0}
    IN IF starts = {} THEN <<s>>
       ELSE LET p == Min(starts)
            IN <<SubSeq(s, 1, p - 1)>> \o SplitBlocks(From(s, SepEnd(s, p) + 1))

\* re.match(r"(.+?)\s*-->\s*(.+?)(?:\s|$)", line) on a stripped line: the
\* lengths k of group 1 for which the rest is whitespace, the arrow and at
\* least one more character; the lazy group takes the least of them.
ArrowAfter(line, k) ==
    LET r == From(line, k + 1)
        nonws == {j \in 1..Len(r) : r[j] \notin Whitespace}
        a == IF nonws = {} THEN Len(r) + 1 ELSE Min(nonws)
    IN IF StartsWith(From(r, a), <<"-", "-", ">">>) /\ Len(r) >= a + 3
       THEN k + a + 2 ELSE 0

TimingSplits(line) == {k \in 1..Len(line) : ArrowAfter(line, k) # 0}

TimingGroup1(line) == SubSeq(line, 1, Min(TimingSplits(line)))

\* Group 2: after the arrow and the whitespace behind it, the characters up
\* to the next whitespace or the end of the line.
TimingGroup2(line) ==
    LET r == Strip(From(line, ArrowAfter(line, Min(TimingSplits(line))) + 1))
        ws == {j \in 1..Len(r) : r[j] \in Whitespace}
    IN IF ws = {} THEN r ELSE SubSeq(r, 1, Min(ws) - 1)

\* One iteration of the loop of parse_srt: the cue of a block, as a
\* sequence of length 1, or the empty sequence when the block is skipped
\* (blank, fewer than three lines, ValueError of int() or parse_timestamp,
\* no timing match).
ParseBlock(block) ==
    LET lines == Split(Strip(block), LF)
        timing == Strip(lines[2])
    IN IF Strip(block) = <<>> THEN <<>>
       ELSE IF Len(lines) < 3 THEN <<>>
       ELSE IF ~IsInt(lines[1]) THEN <<>>
       ELSE IF TimingSplits(timing) = {} THEN <<>>
       ELSE IF ~TimestampMatches(TimingGroup1(timing)) THEN <<>>
       ELSE IF ~TimestampMatches(TimingGroup2(timing)) THEN <<>>
       ELSE <<Cue(IntOf(lines[1]),
                  parse_timestamp(TimingGroup1(timing)),
                  parse_timestamp(TimingGroup2(timing)),
                  Strip(Join(SubSeq(lines, 3, Len(lines)), <<LF>>)))>>

\* The warning that iteration prints: "bad timestamp" when the timing line
\* does not match, "malformed" for a ValueError of int() or
\* parse_timestamp, none for a blank block, for one of fewer than three
\* lines and for a block that yields its cue.
BlockWarning(block) ==
    LET lines == Split(Strip(block), LF)
        timing == Strip(lines[2])
    IN IF Strip(block) = <<>> THEN <<>>
       ELSE IF Len(lines) < 3 THEN <<>>
       ELSE IF ~IsInt(lines[1]) THEN <<"malformed">>
       ELSE IF TimingSplits(timing) = {} THEN <<"bad timestamp">>
       ELSE IF ~TimestampMatches(TimingGroup1(timing)) THEN <<"malformed">>
       ELSE IF ~TimestampMatches(TimingGroup2(timing)) THEN <<"malformed">>
       ELSE <<>>

RECURSIVE BlockWarnings(_)
BlockWarnings(blocks) ==
    IF blocks = <<>> THEN <<>>
    ELSE BlockWarning(Head(blocks)) \o BlockWarnings(Tail(blocks))

\* The warnings of a call of parse_srt.
parse_srt_warnings(content) ==
    BlockWarnings(SplitBlocks(Strip(RemoveBOM(NormalizeNewlines(content)))))

\* A loop that puts each cue in front of the ones before it.
RECURSIVE ParseBlocksNewestFirst(_)
ParseBlocksNewestFirst(blocks) ==
    IF blocks = <<>> THEN <<>>
    ELSE ParseBlocksNewestFirst(Tail(blocks)) \o ParseBlock(Head(blocks))

RECURSIVE ParseBlocks(_)
ParseBlocks(blocks) ==
    IF blocks = <<>> THEN <<>>
    ELSE ParseBlock(Head(blocks)) \o ParseBlocks(Tail(blocks))

parse_srt(content) ==
    ParseBlocks(SplitBlocks(Strip(RemoveBOM(NormalizeNewlines(content)))))

\* Lines that carry the cue's own index.
CueLinesKeepIndex(i, cue, use_translated) ==
    <<Str(cue.index),
      format_timestamp(cue.start_time) \o <<" ", "-", "-", ">", " ">>
          \o format_timestamp(cue.end_time),
      IF use_translated /\ Truthy(cue.translated_text)
      THEN cue.translated_text[1] ELSE cue.text,
      <<>>>>

\* Lines that carry the translation whatever use_translated says.
CueLinesAlwaysTranslated(i, cue, use_translated) ==
    <<Str(i),
      format_timestamp(cue.start_time) \o <<" ", "-", "-", ">", " ">>
          \o format_timestamp(cue.end_time),
      IF Truthy(cue.translated_text) THEN cue.translated_text[1] ELSE cue.text,
      <<>>>>

\* The four lines generate_srt appends for the i-th cue.
CueLines(i, cue, use_translated) ==
    <<Str(i),
      format_timestamp(cue.start_time) \o <<" ", "-", "-", ">", " ">>
          \o format_timestamp(cue.end_time),
      IF use_translated /\ Truthy(cue.translated_text)
      THEN cue.translated_text[1] ELSE cue.text,
      <<>>>>

RECURSIVE AllCueLines(_, _, _)
AllCueLines(cues, i, use_translated) ==
    IF i > Len(cues) THEN <<>>
    ELSE CueLines(i, cues[i], use_translated) \o AllCueLines(cues, i + 1, use_translated)

generate_srt(cues, use_translated) ==
    <<BOM>> \o Join(AllCueLines(cues, 1, use_translated), <<CR, LF>>)

\* ------------------------------------------------------------------------
\* Batch planner
\* ------------------------------------------------------------------------

\* The position a slice bound a denotes in a list of length n: a negative
\* bound counts from the end, and either is clamped to 0..n.
PyIndex(n, a) ==
    IF a < 0 THEN (IF a + n < 0 THEN 0 ELSE a + n)
    ELSE IF a > n THEN n ELSE a

\* An end-inclusive slice: s[a:b+1].
PySliceInclusive(s, a, b) ==
    SubSeq(s, PyIndex(Len(s), a) + 1,
           IF PyIndex(Len(s), b) < Len(s) THEN PyIndex(Len(s), b) + 1 ELSE Len(s))

\* A slice that leaves out its first element: s[a+1:b].
PySliceSkipFirst(s, a, b) == SubSeq(s, PyIndex(Len(s), a) + 2, PyIndex(Len(s), b))

\* s[a:b] for 0-based a and b
PySlice(s, a, b) == SubSeq(s, PyIndex(Len(s), a) + 1, PyIndex(Len(s), b))

\* A loop over range(0, len(cues) + 1, batch_size): one more iteration
\* when the length is a multiple of batch_size.
RECURSIVE BatchesFromInclusiveEnd(_, _, _, _)
BatchesFromInclusiveEnd(cues, batch_size, context_size, i) ==
    IF i > Len(cues) THEN <<>>
    ELSE <<[cues |-> PySlice(cues, i, i + batch_size),
            prev_context |-> PySlice(cues, Max({0, i - context_size}), i),
            next_context |-> PySlice(cues, i + batch_size,
                                     Min({Len(cues), i + batch_size + context_size})),
            start_index |-> i,
            end_index |-> i + Len(PySlice(cues, i, i + batch_size)) - 1]>>
         \o BatchesFromInclusiveEnd(cues, batch_size, context_size, i + batch_size)

\* The iterations i, i + batch_size, ... of the loop of create_batches.
\* A batch's cues, prev_context and next_context hold the Cue objects of
\* the list themselves (slices share the elements).
RECURSIVE BatchesFrom(_, _, _, _)
BatchesFrom(cues, batch_size, context_size, i) ==
    IF i >= Len(cues) THEN <<>>
    ELSE LET batch_cues == PySlice(cues, i, i + batch_size)
             prev_start == IF i - context_size > 0 THEN i - context_size ELSE 0
             next_end == IF Len(cues) < i + batch_size + context_size
                         THEN Len(cues) ELSE i + batch_size + context_size
         IN <<[cues |-> batch_cues,
               prev_context |-> PySlice(cues, prev_start, i),
               next_context |-> PySlice(cues, i + batch_size, next_end),
               start_index |-> i,
               end_index |-> i + Len(batch_cues) - 1]>>
            \o BatchesFrom(cues, batch_size, context_size, i + batch_size)

\* range(0, len(cues), batch_size) raises ValueError for a step of 0.
create_batches_raises(batch_size) == batch_size = 0

\* For a negative step the range is empty.
create_batches(cues, batch_size, context_size) ==
    IF batch_size > 0 THEN BatchesFrom(cues, batch_size, context_size, 0) ELSE <<>>

\* ------------------------------------------------------------------------
\* Response parser
\* ------------------------------------------------------------------------

\* The result of a call: a returned value, or an exception raised.
Returned(v) == [raised |-> FALSE, value |-> v]

Raised == [raised |-> TRUE, value |-> <<>>]

\* The number of leading digits of a stripped line: group 1 of
\* r"^\s*(\d+)\s*[.:\)]\s*(.+)$".
LeadingDigits(t) ==
    LET nondigit == {j \in 1..Len(t) : t[j] \notin Digits}
    IN IF nondigit = {} THEN Len(t) ELSE Min(nondigit) - 1

\* The position of the separator ('.', ':' or ')') behind the number and
\* the whitespace after it, 0 when the line does not match that far.
SeparatorAt(t) ==
    LET d == LeadingDigits(t)
        nonws == {j \in (d + 1)..Len(t) : t[j] \notin Whitespace}
    IN IF d = 0 \/ nonws = {} THEN 0
       ELSE IF t[Min(nonws)] \in {".", ":", ")"} THEN Min(nonws) ELSE 0

\* re.match(pattern, line.strip()): the line matches when a number, a
\* separator and at least one more character are there.
LineMatches(line) ==
    LET t == Strip(line)
    IN SeparatorAt(t) # 0 /\ SeparatorAt(t) < Len(t)

\* int(match.group(1))
LineNum(line) == LET t == Strip(line) IN DigitsVal(SubSeq(t, 1, LeadingDigits(t)))

\* Remove surrounding quotes if present: text[1:-1]
Unquote(text) ==
    IF \/ (text # <<>> /\ text[1] = "\"" /\ text[Len(text)] = "\"")
       \/ (text # <<>> /\ text[1] = "'" /\ text[Len(text)] = "'")
    THEN SubSeq(text, 2, Len(text) - 1)
    ELSE text

\* match.group(2).strip(), then the quotes removed
LineText(line) ==
    LET t == Strip(line) IN Unquote(Strip(From(t, SeparatorAt(t) + 1)))

\* while len(translations) < num - 1: translations.append("")
PadTo(translations, n) ==
    IF Len(translations) >= n THEN translations
    ELSE [i \in 1..n |-> IF i <= Len(translations) THEN translations[i] ELSE <<>>]

\* The body of the loop for one matched line.  translations[num - 1] = text
\* with num = 0 is translations[-1] = text: the last entry, and IndexError
\* on an empty list.
StoreLine(translations, num, text) ==
    LET padded == PadTo(translations, num - 1)
    IN IF Len(padded) < num THEN Returned(Append(padded, text))
       ELSE IF num >= 1 THEN Returned([padded EXCEPT ![num] = text])
       ELSE IF padded = <<>> THEN Raised
       ELSE Returned([padded EXCEPT ![Len(padded)] = text])

\* A loop that keeps an empty entry for a line that is no numbered line.
RECURSIVE CollectLinesPlaceholder(_, _, _)
CollectLinesPlaceholder(lines, i, translations) ==
    IF i > Len(lines) THEN Returned(translations)
    ELSE IF ~LineMatches(lines[i])
         THEN CollectLinesPlaceholder(lines, i + 1, Append(translations, <<>>))
    ELSE LET r == StoreLine(translations, LineNum(lines[i]), LineText(lines[i]))
         IN IF r.raised THEN Raised ELSE CollectLinesPlaceholder(lines, i + 1, r.value)

\* The loop over the lines of the response, from line i on.
RECURSIVE CollectLines(_, _, _)
CollectLines(lines, i, translations) ==
    IF i > Len(lines) THEN Returned(translations)
    ELSE IF ~LineMatches(lines[i]) THEN CollectLines(lines, i + 1, translations)
    ELSE LET r == StoreLine(translations, LineNum(lines[i]), LineText(lines[i]))
         IN IF r.raised THEN Raised ELSE CollectLines(lines, i + 1, r.value)

parse_translation_response(response, expected_count) ==
    LET r == CollectLines(Split(Strip(response), LF), 1, <<>>)
    IN IF r.raised THEN Raised
       ELSE Returned(PySlice(PadTo(r.value, expected_count), 0, expected_count))

\* ------------------------------------------------------------------------
\* Codec round trip: generate_srt, then parse_srt of its output
\* ------------------------------------------------------------------------

MaxCodecCues == 2

\* <<start_time, end_time>> in milliseconds, 0 <= start_time <= end_time:
\* zero, 00:01:02,345, the last instant below one hundred hours and the
\* first instant of the hundredth hour.
SampleTimings == {<<0, 0>>, <<62345, 359999999>>, <<1000, 360000000>>}

\* Source texts as parse_srt itself yields them: stripped, one or more
\* lines, no blank line.
SampleTexts == {<<"a">>, <<"b", LF, "c">>}

\* <<index, translated_text>>
SampleMarks == {<<7, None>>, <<0, Some(<<"X">>)>>}

SampleCues ==
    {[index |-> m[1], start_time |-> t[1], end_time |-> t[2], text |-> x,
      translated_text |-> m[2]] :
        m \in SampleMarks, t \in SampleTimings, x \in SampleTexts}

SeqsUpTo(S, n) == UNION {[1..k -> S] : k \in 0..n}

\* The session file chatgpt.session.json as load_session finds it.  file:
\* "missing", "unreadable" (open() raises OSError), "malformed" (no JSON),
\* "json".  For a JSON file, value is "dict" for a non-empty object, "empty"
\* for a falsy value ({}, null, ...) and "other" for a truthy value that is
\* no object; expiresAt and accessToken are the fields of a "dict".
SessionFile(file, value, expiresAt, accessToken) ==
    [file |-> file, value |-> value, expiresAt |-> expiresAt, accessToken |-> accessToken]

\* An expiresAt field: "absent", "unparseable" (fromisoformat raises
\* ValueError), "naive" (a timestamp without offset: the comparison with an
\* aware datetime raises TypeError), "aware" with the instant at.
Expiry(kind, at) == [kind |-> kind, at |-> at]

NoExpiry == Expiry("absent", 0)

NoSessionFile == SessionFile("missing", "empty", NoExpiry, None)

\* The result of a call that returns an int.
ReturnedInt(n) == [raised |-> FALSE, value |-> n]

RaisedInt == [raised |-> TRUE, value |-> 0]

TimeIdle ==
    /\ time_pc = "idle"
    /\ time_ms_in = 0
    /\ time_ts_in = <<>>
    /\ time_ms_out = ReturnedInt(0)
    /\ time_ts_out = <<>>

CodecIdle ==
    /\ codec_pc = "idle"
    /\ codec_cues = <<>>
    /\ codec_use = FALSE
    /\ codec_doc = <<>>
    /\ codec_parsed = <<>>
    /\ codec_blocks = <<>>
    /\ codec_warnings = <<>>

PlanIdle ==
    /\ plan_pc = "idle"
    /\ plan_cues = <<>>
    /\ plan_batch_size = 1
    /\ plan_context_size = 0
    /\ plan_batches = <<>>

RespIdle ==
    /\ resp_pc = "idle"
    /\ resp_text = <<>>
    /\ resp_expected = 0
    /\ resp_result = Returned(<<>>)

RunIdle ==
    /\ run_pc = "idle"
    /\ run_content = <<>>
    /\ run_batch_size = 1
    /\ run_context_size = 0
    /\ run_cues = <<>>
    /\ run_batches = <<>>
    /\ run_cur = 0
    /\ run_attempt = 0
    /\ run_inflight = {}
    /\ run_translations = <<>>
    /\ run_failed_batches = 0
    /\ run_output_content = None
    /\ run_calls = <<>>
    /\ run_parser_runs = <<>>
    /\ run_fallback = {}
    /\ run_returned = <<>>
    /\ run_failed_in = <<>>
    /\ run_session = NoSessionFile
    /\ run_responses = <<>>
    /\ run_delays = <<>>
    /\ run_summary = None
    /\ run_prompt = None
    /\ run_sent = <<>>
    /\ run_phases = <<>>

NoBatch == [cues |-> <<>>, prev_context |-> <<>>, next_context |-> <<>>]

PromptIdle ==
    /\ prompt_pc = "idle"
    /\ prompt_batch = NoBatch
    /\ prompt_lang = <<>>
    /\ prompt_text = <<>>

\* subprocess.run: status "exit" with curl's returncode and the lines of
\* its stdout, "timeout" for TimeoutExpired, "oserror" for any other
\* exception of the call.
Process(status, returncode, stdout) ==
    [status |-> status, returncode |-> returncode, stdout |-> stdout]

\* What translate_with_chatgpt returns and which error it printed.
CallResult(value, error) == [value |-> value, error |-> error]

CallIdle ==
    /\ call_pc = "idle"
    /\ call_proc = Process("exit", 0, <<>>)
    /\ call_result = CallResult(None, "")

\* The server as create_oauth_server returns it.
NewServer ==
    [callback_code |-> None, callback_state |-> None, callback_error |-> None,
     callback_received |-> FALSE]

\* No login in progress.
OAuthIdle ==
    /\ oauth_pc = "idle"
    /\ oauth_port = "free"
    /\ oauth_timeout = 1
    /\ oauth_elapsed = 0
    /\ oauth_state = "s1"
    /\ oauth_server = NewServer
    /\ oauth_result = None
    /\ oauth_token_requests = 0
    /\ oauth_callback = None
    /\ oauth_timed_out = FALSE

CodecInit ==
    /\ TimeIdle
    /\ PlanIdle
    /\ RespIdle
    /\ RunIdle
    /\ PromptIdle
    /\ CallIdle
    /\ OAuthIdle
    /\ codec_pc = "input"
    /\ codec_cues \in SeqsUpTo(SampleCues, MaxCodecCues)
    /\ codec_use \in BOOLEAN
    /\ codec_doc = <<>>
    /\ codec_parsed = <<>>
    /\ codec_blocks = <<>>
    /\ codec_warnings = <<>>

Serialize ==
    /\ codec_pc = "input"
    /\ codec_doc' = generate_srt(codec_cues, codec_use)
    /\ codec_pc' = "serialized"
    /\ UNCHANGED <<codec_cues, codec_use, codec_parsed, codec_blocks, codec_warnings, time_vars, plan_vars, resp_vars,
                   run_vars, prompt_vars, call_vars,
                   oauth_vars>>

Reparse ==
    /\ codec_pc = "serialized"
    /\ codec_parsed' = parse_srt(codec_doc)
    /\ codec_warnings' = parse_srt_warnings(codec_doc)
    /\ codec_pc' = "parsed"
    /\ UNCHANGED <<codec_cues, codec_use, codec_doc, codec_blocks, time_vars, plan_vars, resp_vars,
                   run_vars, prompt_vars, call_vars,
                   oauth_vars>>

CodecNext == Serialize \/ Reparse

SpecCodec == CodecInit /\ [][CodecNext]_vars

\* ------------------------------------------------------------------------
\* Reading a document: parse_srt over documents of well-formed and
\* malformed blocks
\* ------------------------------------------------------------------------

MaxDocBlocks == 3

\* 00:00:0s,mmm for one digit s and three digits mmm
SampleTimestamp(s, mmm) ==
    <<"0", "0", ":", "0", "0", ":", "0", DigitChars[s + 1], ",">> \o mmm

Arrow == <<" ", "-", "-", ">", " ">>

\* 00:00:0s,mmm as characters
Stamp(sec, mmm) == SampleTimestamp(sec, Str(mmm))

\* Two well-formed blocks (one with an index out of order and two lines of
\* text) and one whose end time is before its start time; a block of two
\* lines and one of one line; a timing line without
\* an arrow, one with a one-digit hour and one with a fourth digit of
\* milliseconds; an index that is no number.
SampleBlocks ==
    {[kind |-> "cue",
      text |-> <<"1", LF>> \o Stamp(1, 100) \o Arrow \o Stamp(2, 100) \o <<LF, "a">>,
      cue |-> Some(Cue(1, 1100, 2100, <<"a">>))],
     [kind |-> "cue",
      text |-> <<"7", LF>> \o Stamp(3, 100) \o Arrow \o Stamp(4, 500) \o <<LF, "b", LF, "c">>,
      cue |-> Some(Cue(7, 3100, 4500, <<"b", LF, "c">>))],
     [kind |-> "cue",
      text |-> <<"6", LF>> \o Stamp(2, 100) \o Arrow \o Stamp(1, 100) \o <<LF, "w">>,
      cue |-> Some(Cue(6, 2100, 1100, <<"w">>))],
     [kind |-> "short",
      text |-> <<"2", LF>> \o Stamp(1, 100) \o Arrow \o Stamp(2, 100),
      cue |-> None],
     [kind |-> "short",
      text |-> <<"h", "i">>,
      cue |-> None],
     [kind |-> "bad timing",
      text |-> <<"3", LF>> \o Stamp(1, 100) \o <<" ">> \o Stamp(2, 100) \o <<LF, "x">>,
      cue |-> None],
     [kind |-> "bad timing",
      text |-> <<"4", LF>> \o Stamp(1, 100) \o Arrow \o Tail(Stamp(2, 100)) \o <<LF, "x">>,
      cue |-> None],
     [kind |-> "bad timing",
      text |-> <<"5", LF>> \o Stamp(1, 100) \o <<"9">> \o Arrow \o Stamp(2, 100) \o <<LF, "z">>,
      cue |-> None],
     [kind |-> "bad index",
      text |-> <<"x", LF>> \o Stamp(1, 100) \o Arrow \o Stamp(2, 100) \o <<LF, "y">>,
      cue |-> None]}

\* The text of a file of the given blocks, a blank line between them.
DocumentOf(blocks) == Join([k \in 1..Len(blocks) |-> blocks[k].text], <<LF, LF>>)

ReadInit ==
    /\ TimeIdle
    /\ PlanIdle
    /\ RespIdle
    /\ RunIdle
    /\ PromptIdle
    /\ CallIdle
    /\ OAuthIdle
    /\ codec_pc = "document"
    /\ codec_blocks \in SeqsUpTo(SampleBlocks, MaxDocBlocks)
    /\ codec_doc = DocumentOf(codec_blocks)
    /\ codec_cues = <<>>
    /\ codec_use = FALSE
    /\ codec_parsed = <<>>
    /\ codec_warnings = <<>>

\* parse_srt(content)
ReadDocument ==
    /\ codec_pc = "document"
    /\ codec_parsed' = parse_srt(codec_doc)
    /\ codec_warnings' = parse_srt_warnings(codec_doc)
    /\ codec_pc' = "read"
    /\ UNCHANGED <<codec_cues, codec_use, codec_doc, codec_blocks, time_vars, plan_vars,
                   resp_vars, run_vars, prompt_vars, call_vars,
                   oauth_vars>>

ReadNext == ReadDocument

SpecRead == ReadInit /\ [][ReadNext]_vars

\* ------------------------------------------------------------------------
\* Timestamp conversions: format_timestamp and parse_timestamp, each on
\* its own inputs and on the other's result
\* ------------------------------------------------------------------------

\* Two-digit fields: the least, values with a leading zero, the greatest
\* minute or second of a clock, the first value above it, the greatest.
SampleFields2 ==
    {<<"0", "0">>, <<"0", "1">>, <<"0", "2">>, <<"0", "9">>, <<"1", "0">>,
     <<"5", "9">>, <<"6", "0">>, <<"9", "9">>}

SampleFields3 == {<<"0", "0", "0">>, <<"0", "0", "1">>, <<"3", "4", "5">>, <<"9", "9", "9">>}

\* HH:MM:SS,mmm and HH:MM:SS.mmm over the sample fields.
SampleTimestamps ==
    {h \o <<":">> \o m \o <<":">> \o sec \o <<sep>> \o mmm :
        h \in SampleFields2, m \in SampleFields2, sec \in SampleFields2,
        sep \in {",", "."}, mmm \in SampleFields3}

\* Strings parse_timestamp rejects: a one-digit hour, a three-digit hour,
\* the empty string.
SampleRejected ==
    {<<"1", ":", "0", "0", ":", "0", "0", ",", "0", "0", "0">>,
     <<"1", "0", "0", ":", "0", "0", ":", "0", "0", ",", "0", "0", "0">>,
     <<>>}

\* Milliseconds: zero, around a second, a minute, an hour and a day, the
\* last instant below one hundred hours, the first of the hundredth hour
\* and one far beyond it.
SampleMillis ==
    {0, 1, 999, 1000, 59999, 60000, 62345, 3599999, 3600000, 86399999, 86400000,
     359999999, 360000000, 2000000000}

\* parse_timestamp as a call: ValueError when the pattern does not match.
parse_timestamp_call(ts) ==
    IF TimestampMatches(ts) THEN ReturnedInt(parse_timestamp(ts)) ELSE RaisedInt

TimeInit ==
    /\ CodecIdle
    /\ PlanIdle
    /\ RespIdle
    /\ RunIdle
    /\ PromptIdle
    /\ CallIdle
    /\ OAuthIdle
    /\ time_ms_out = ReturnedInt(0)
    /\ time_ts_out = <<>>
    /\ \/ /\ time_pc = "ms_input"
          /\ time_ms_in \in SampleMillis
          /\ time_ts_in = <<>>
       \/ /\ time_pc = "ts_input"
          /\ time_ts_in \in SampleTimestamps \cup SampleRejected
          /\ time_ms_in = 0

time_others == <<codec_vars, plan_vars, resp_vars, run_vars, prompt_vars, call_vars, oauth_vars>>

\* format_timestamp(ms)
FormatTimestamp ==
    /\ time_pc = "ms_input"
    /\ time_ts_out' = format_timestamp(time_ms_in)
    /\ time_pc' = "formatted"
    /\ UNCHANGED <<time_ms_in, time_ts_in, time_ms_out, time_others>>

\* parse_timestamp of what format_timestamp returned
ParseFormatted ==
    /\ time_pc = "formatted"
    /\ time_ms_out' = parse_timestamp_call(time_ts_out)
    /\ time_pc' = "reparsed"
    /\ UNCHANGED <<time_ms_in, time_ts_in, time_ts_out, time_others>>

\* parse_timestamp(timestamp)
ParseTimestamp ==
    /\ time_pc = "ts_input"
    /\ time_ms_out' = parse_timestamp_call(time_ts_in)
    /\ time_pc' = IF TimestampMatches(time_ts_in) THEN "parsed" ELSE "rejected"
    /\ UNCHANGED <<time_ms_in, time_ts_in, time_ts_out, time_others>>

\* format_timestamp of what parse_timestamp returned
FormatParsed ==
    /\ time_pc = "parsed"
    /\ time_ts_out' = format_timestamp(time_ms_out.value)
    /\ time_pc' = "reformatted"
    /\ UNCHANGED <<time_ms_in, time_ts_in, time_ms_out, time_others>>

TimeNext == FormatTimestamp \/ ParseFormatted \/ ParseTimestamp \/ FormatParsed

SpecTime == TimeInit /\ [][TimeNext]_vars

\* ------------------------------------------------------------------------
\* Planning: create_batches over the cue identities 1..n
\* ------------------------------------------------------------------------

MaxPlanCues == 5

MaxBatchSize == 3

MaxContextSize == 2

\* The Cue objects of a list of n cues, named by their position.
CueRefs(n) == [i \in 1..n |-> i]

PlanInit ==
    /\ TimeIdle
    /\ CodecIdle
    /\ RespIdle
    /\ RunIdle
    /\ PromptIdle
    /\ CallIdle
    /\ OAuthIdle
    /\ plan_pc = "input"
    /\ plan_cues \in {CueRefs(n) : n \in 0..MaxPlanCues}
    /\ plan_batch_size \in 1..MaxBatchSize
    /\ plan_context_size \in (0 - MaxContextSize)..MaxContextSize
    /\ plan_batches = <<>>

Plan ==
    /\ plan_pc = "input"
    /\ ~create_batches_raises(plan_batch_size)
    /\ plan_batches' = create_batches(plan_cues, plan_batch_size, plan_context_size)
    /\ plan_pc' = "planned"
    /\ UNCHANGED <<plan_cues, plan_batch_size, plan_context_size, time_vars, codec_vars,
                   resp_vars, run_vars, prompt_vars, call_vars,
                   oauth_vars>>

PlanNext == Plan

SpecPlan == PlanInit /\ [][PlanNext]_vars

\* ------------------------------------------------------------------------
\* Response parsing: parse_translation_response over responses of a few lines
\* ------------------------------------------------------------------------

MaxResponseLines == 3

MaxExpected == 3

\* Lines a model may answer with: numbered lines with each separator, in
\* quotes, numbered 0 and above the expected count, the same number twice,
\* lines that are no numbered line (prose, a number without text, a blank
\* line), and texts with a pair of single quotes, with two different quote
\* characters and of one quote character alone.
ResponseLines ==
    {<<"1", ".", " ", "f">>,
     <<"3", ".", " ", "b">>,
     <<" ", "1", " ", ":", "g", " ">>,
     <<"2", ")", " ", "\"", "h", "\"">>,
     <<"0", ".", " ", "z">>,
     <<"5", ".", "q">>,
     <<"h", "i">>,
     <<"2", ".">>,
     <<>>,
     <<"1", ".", " ", "\"">>,
     <<"3", ":", " ", "'", "k", "'">>,
     <<"2", ".", " ", "\"", "m", "'">>}

ParseInit ==
    /\ TimeIdle
    /\ CodecIdle
    /\ PlanIdle
    /\ RunIdle
    /\ PromptIdle
    /\ CallIdle
    /\ OAuthIdle
    /\ resp_pc = "input"
    /\ resp_text \in {Join(ls, <<LF>>) : ls \in SeqsUpTo(ResponseLines, MaxResponseLines)}
    /\ resp_expected \in 0..MaxExpected
    /\ resp_result = Returned(<<>>)

ParseResponse ==
    /\ resp_pc = "input"
    /\ resp_result' = parse_translation_response(resp_text, resp_expected)
    /\ resp_pc' = "parsed"
    /\ UNCHANGED <<resp_text, resp_expected, time_vars, codec_vars, plan_vars, run_vars,
                   prompt_vars, call_vars,
                   oauth_vars>>

ParseNext == ParseResponse

SpecParse == ParseInit /\ [][ParseNext]_vars

\* ------------------------------------------------------------------------
\* The translate command: parse, plan, one batch after the other with
\* retries, apply, write the output
\* ------------------------------------------------------------------------

MAX_RETRIES == 3

\* Seconds
RETRY_BACKOFF == <<1, 2, 4>>

MaxRunCues == 3

MaxRunBatchSize == 2

MaxRunContextSize == 1

\* The third text is one a response hands back unchanged.
SourceLetters == <<"a", "b", "R", "d", "e", "f", "g", "h", "i">>

\* An input block: index i, 00:00:0i,000 --> 00:00:0i,500, one line of text.
SampleBlock(i) ==
    Str(i) \o <<LF>> \o SampleTimestamp(i, <<"0", "0", "0">>)
        \o <<" ", "-", "-", ">", " ">> \o SampleTimestamp(i, <<"5", "0", "0">>)
        \o <<LF>> \o <<SourceLetters[i]>>

\* An input file of n blocks; the empty file for n = 0.
SampleDocument(n) == Join([i \in 1..n |-> SampleBlock(i)], <<LF, LF>>)

\* An input file without any block parse_srt accepts: the timing line has
\* no arrow.
MalformedDocument ==
    <<"1", LF>> \o SampleTimestamp(1, <<"0", "0", "0">>) \o <<LF, "a">>

\* What the provider answers with: one numbered line for each of two items
\* and for one item, a gap at 1, no numbered line at all, a line numbered 0.
RunResponses ==
    {<<"1", ".", " ", "X", LF, "2", ".", " ", "Y">>,
     <<"1", ".", " ", "R">>,
     <<"2", ".", " ", "Y">>,
     <<"h", "m">>,
     <<"0", ".", " ", "Z">>}

\* What translate_with_chatgpt returns: None, or full_text.strip(), which
\* may be the empty string.
ProviderResults == {None, Some(<<>>)} \cup {Some(r) : r \in RunResponses}

\* load_session: None for a missing file and for one that is no JSON; any
\* other error of open() or read() is not caught.
load_session(f) ==
    IF f.file = "missing" THEN Returned(None)
    ELSE IF f.file = "unreadable" THEN Raised
    ELSE IF f.file = "malformed" THEN Returned(None)
    ELSE Returned(Some(f))

\* session.get(...) on a JSON value that is no object raises AttributeError,
\* expiry <= now on a naive datetime raises TypeError; validate_session
\* catches ValueError only.
validate_session_raises(session) ==
    session.value # "dict" \/ session.expiresAt.kind = "naive"

\* A check that takes every session as valid.
validate_session_lenient(session) == TRUE

\* at is time_left = expiry - now at the moment of the call.
validate_session(session) ==
    IF session.expiresAt.kind = "absent" THEN TRUE
    ELSE IF session.expiresAt.kind = "unparseable" THEN TRUE
    ELSE ~(session.expiresAt.at <= 0)

get_access_token(session) == session.accessToken

\* One session file for each way through the checks of translate: no
\* usable file, a JSON value that is no non-empty object, an object without
\* expiresAt or with one that cannot be parsed (both taken as valid) and
\* without a usable token, expired tokens (the instant of expiry included),
\* a timestamp without offset, and a valid session.
SampleSessions ==
    {SessionFile(f, "empty", NoExpiry, None) : f \in {"missing", "unreadable", "malformed"}}
    \cup {SessionFile("json", v, NoExpiry, None) : v \in {"empty", "other"}}
    \cup {SessionFile("json", "dict", NoExpiry, None),
          SessionFile("json", "dict", Expiry("unparseable", 0), Some(<<>>)),
          SessionFile("json", "dict", Expiry("naive", 0), Some(<<"t">>)),
          SessionFile("json", "dict", Expiry("aware", 0 - 1), Some(<<"t">>)),
          SessionFile("json", "dict", Expiry("aware", 0), Some(<<"t">>)),
          SessionFile("json", "dict", Expiry("aware", 1), None),
          SessionFile("json", "dict", Expiry("aware", 1), Some(<<"t">>))}

\* A run of translate that is about to load its session, with --batch-size
\* and --context-size drawn from the given sets.
RunStart(batch_sizes, context_sizes) ==
    /\ TimeIdle
    /\ CodecIdle
    /\ PlanIdle
    /\ RespIdle
    /\ PromptIdle
    /\ CallIdle
    /\ OAuthIdle
    /\ run_pc = "load"
    /\ run_session \in SampleSessions
    /\ run_responses = <<>>
    /\ run_content \in {SampleDocument(n) : n \in 0..MaxRunCues} \cup {MalformedDocument}
    /\ run_batch_size \in batch_sizes
    /\ run_context_size \in context_sizes
    /\ run_cues = <<>>
    /\ run_batches = <<>>
    /\ run_cur = 0
    /\ run_attempt = 0
    /\ run_inflight = {}
    /\ run_translations = <<>>
    /\ run_failed_batches = 0
    /\ run_output_content = None
    /\ run_calls = <<>>
    /\ run_parser_runs = <<>>
    /\ run_fallback = {}
    /\ run_returned = <<>>
    /\ run_failed_in = <<>>
    /\ run_delays = <<>>
    /\ run_summary = None
    /\ run_prompt = None
    /\ run_sent = <<>>
    /\ run_phases = <<>>

\* A run with a positive batch_size and no negative context_size.
Init == RunStart(1..MaxRunBatchSize, 0..MaxRunContextSize)

\* A run with any sizes click's type=int lets through (lines 771-784): the
\* two options have no range.
InitAnySize ==
    RunStart((0 - MaxRunBatchSize)..MaxRunBatchSize, (0 - MaxRunContextSize)..MaxRunContextSize)

idle_vars == <<time_vars, codec_vars, plan_vars, resp_vars, prompt_vars, call_vars, oauth_vars>>

\* translate, from load_session to the access token: sys.exit(1) without a
\* session, with an expired one and without a token.
LoadSession ==
    /\ run_pc = "load"
    /\ LET r == load_session(run_session)
       IN run_pc' = IF r.raised THEN "crashed"
                    ELSE IF r.value = None \/ r.value[1].value = "empty" THEN "exit"
                    ELSE IF validate_session_raises(r.value[1]) THEN "crashed"
                    ELSE IF ~validate_session(r.value[1]) THEN "exit"
                    ELSE IF ~Truthy(get_access_token(r.value[1])) THEN "exit"
                    ELSE "start"
    /\ UNCHANGED <<run_content, run_session, run_batch_size, run_context_size, run_cues,
                   run_batches, run_cur, run_attempt, run_inflight, run_translations,
                   run_failed_batches, run_output_content, run_calls, run_parser_runs,
                   run_responses, run_fallback, run_returned, run_failed_in, run_delays, run_summary,
                   run_prompt, run_sent, run_phases, idle_vars>>

\* translate, from parse_srt to the start of the loop over the batches:
\* no cue ends the run with sys.exit(1), and the ValueError of
\* create_batches is caught nowhere.
ReadInput ==
    /\ run_pc = "start"
    /\ LET parsed == parse_srt(run_content)
           planned == create_batches(CueRefs(Len(parsed)), run_batch_size, run_context_size)
       IN /\ run_cues' = parsed
          /\ IF parsed = <<>> \/ create_batches_raises(run_batch_size)
             THEN /\ run_pc' = IF parsed = <<>> THEN "exit" ELSE "crashed"
                  /\ UNCHANGED <<run_batches, run_cur, run_calls, run_parser_runs, run_responses, run_returned, run_failed_in,
                                 run_delays, run_sent, run_phases>>
             ELSE /\ run_batches' = planned
                  /\ run_cur' = 1
                  /\ run_pc' = IF planned = <<>> THEN "generate" ELSE "request"
                  /\ run_calls' = [b \in 1..Len(planned) |-> <<>>]
                  /\ run_parser_runs' = [b \in 1..Len(planned) |-> 0]
                  /\ run_responses' = [b \in 1..Len(planned) |-> None]
                  /\ run_returned' = [b \in 1..Len(planned) |-> <<>>]
                  /\ run_failed_in' = [b \in 1..Len(planned) |-> 0]
                  /\ run_delays' = [b \in 1..Len(planned) |-> <<>>]
                  /\ run_sent' = [b \in 1..Len(planned) |-> <<>>]
                  /\ run_phases' = [b \in 1..Len(planned) |-> <<>>]
    /\ UNCHANGED <<run_content, run_session, run_batch_size, run_context_size, run_attempt, run_inflight, run_translations,
                   run_failed_batches, run_output_content, run_fallback, run_summary, run_prompt, idle_vars>>

\* build_translation_prompt.  The fixed lines of the prompt are Chinese in
\* the source; each is one symbol here, named by what it says.

\* lang_names.get(target_lang, target_lang)
lang_names(target_lang) ==
    CASE target_lang = <<"zh-TW">> -> <<"Traditional Chinese">>
      [] target_lang = <<"zh-CN">> -> <<"Simplified Chinese">>
      [] target_lang = <<"ja">> -> <<"Japanese">>
      [] target_lang = <<"ko">> -> <<"Korean">>
      [] target_lang = <<"en">> -> <<"English">>
      [] target_lang = <<"es">> -> <<"Spanish">>
      [] target_lang = <<"fr">> -> <<"French">>
      [] target_lang = <<"de">> -> <<"German">>
      [] OTHER -> target_lang

IntroLine(target_lang_name) ==
    <<"You are a professional subtitle translator. Translate these subtitles into ">>
        \o target_lang_name \o <<".">>

StyleLine == <<"Keep the meaning, fluent and natural, fit for subtitles.">>

PrevHeader == <<"[Previous context (not to translate)]">>

TranslateHeader == <<"[Content to translate]">>

NextHeader == <<"[Following context (not to translate)]">>

FormatHeader == <<"[Output format]">>

FormatLines ==
    <<<<"Output only the translations, one sentence per line, in this format:">>,
      <<"1", ".", " ", "[translation 1]">>,
      <<"2", ".", " ", "[translation 2]">>,
      <<".", ".", ".">>>>

\* f"- {cue.text}"
ContextLine(cue) == <<"-", " ">> \o cue.text

\* f"{i}. {cue.text}"
NumberedLine(i, cue) == Str(i) \o <<".", " ">> \o cue.text

\* The header and the lines of a context, then an empty line; nothing for
\* an empty context.
ContextParts(header, context) ==
    IF context = <<>> THEN <<>>
    ELSE <<header>> \o [k \in 1..Len(context) |-> ContextLine(context[k])] \o <<<<>>>>

build_translation_prompt(batch, target_lang) ==
    LET prompt_parts ==
            <<IntroLine(lang_names(target_lang)), StyleLine, <<>>>>
            \o ContextParts(PrevHeader, batch.prev_context)
            \o <<TranslateHeader>>
            \o [i \in 1..Len(batch.cues) |-> NumberedLine(i, batch.cues[i])]
            \o <<<<>>>>
            \o ContextParts(NextHeader, batch.next_context)
            \o <<FormatHeader>>
            \o FormatLines
    IN Join(prompt_parts, <<LF>>)

DEFAULT_TARGET_LANG == <<"zh-TW">>

\* A batch of the run with the Cue objects its lists hold.
BatchWithCues(cs, batch) ==
    [cues         |-> [k \in 1..Len(batch.cues) |-> cs[batch.cues[k]]],
     prev_context |-> [k \in 1..Len(batch.prev_context) |-> cs[batch.prev_context[k]]],
     next_context |-> [k \in 1..Len(batch.next_context) |-> cs[batch.next_context[k]]]]

\* A loop that starts the function again for every attempt.
EntersFunctionEachAttempt(attempt) == TRUE

\* The iteration with attempt = 0 follows the entry of
\* translate_batch_with_retry, where the prompt is built.
EntersFunction(attempt) == attempt = 0

\* prompt = build_translation_prompt(batch, target_lang), before the loop
PromptAt(attempt) ==
    IF EntersFunction(attempt)
    THEN Some(build_translation_prompt(BatchWithCues(run_cues, run_batches[run_cur]),
                                       DEFAULT_TARGET_LANG))
    ELSE run_prompt

\* The steps of a batch up to a provider call.
RequestPhases(attempt) ==
    (IF EntersFunction(attempt) THEN <<"Rendering">> ELSE <<>>) \o <<"Requesting">>

\* A schedule that waits the first value before every retry.
WaitTimeFirst(attempt) == RETRY_BACKOFF[1]

\* wait_time = RETRY_BACKOFF[min(attempt - 1, len(RETRY_BACKOFF) - 1)] for
\* the loop variable attempt = 1, 2, ... (the list is indexed from 0)
WaitTime(attempt) == RETRY_BACKOFF[Min({attempt - 1, Len(RETRY_BACKOFF) - 1}) + 1]

\* if attempt > 0: time.sleep(wait_time).  The seconds slept before the
\* call of the attempt, 0 when there is no sleep.
SleepBefore(attempt) == IF attempt > 0 THEN WaitTime(attempt) ELSE 0

\* A dispatch that does not wait: the request of the next batch goes out
\* together with the one of the current batch.
SendRequestAhead ==
    /\ run_pc = "request"
    /\ run_delays' = [run_delays EXCEPT ![run_cur] = Append(@, SleepBefore(run_attempt))]
    /\ run_prompt' = PromptAt(run_attempt)
    /\ run_sent' = [run_sent EXCEPT ![run_cur] = Append(@, PromptAt(run_attempt)[1])]
    /\ run_phases' = [run_phases EXCEPT ![run_cur] = @ \o RequestPhases(run_attempt)]
    /\ run_inflight' = run_inflight \cup {run_cur, run_cur + 1}
    /\ run_pc' = "waiting"
    /\ UNCHANGED <<run_content, run_session, run_batch_size, run_context_size, run_cues, run_batches,
                   run_cur, run_attempt, run_translations, run_failed_batches,
                   run_output_content, run_calls, run_parser_runs, run_responses, run_fallback,
                   run_returned, run_failed_in, run_summary, idle_vars>>

\* translate_batch_with_retry up to the call: the prompt is built when the
\* function is entered; then, in each iteration of the loop, the sleep
\* before a retry, and translate_with_chatgpt is called with the prompt:
\* the request of the current attempt goes out.
SendRequest ==
    /\ run_pc = "request"
    /\ run_delays' = [run_delays EXCEPT ![run_cur] = Append(@, SleepBefore(run_attempt))]
    /\ run_prompt' = PromptAt(run_attempt)
    /\ run_sent' = [run_sent EXCEPT ![run_cur] = Append(@, PromptAt(run_attempt)[1])]
    /\ run_phases' = [run_phases EXCEPT ![run_cur] = @ \o RequestPhases(run_attempt)]
    /\ run_inflight' = run_inflight \cup {run_cur}
    /\ run_pc' = "waiting"
    /\ UNCHANGED <<run_content, run_session, run_batch_size, run_context_size, run_cues, run_batches, run_cur, run_attempt,
                   run_translations, run_failed_batches, run_output_content, run_calls, run_parser_runs, run_responses,
                   run_fallback, run_returned, run_failed_in, run_summary, idle_vars>>

\* One attempt too many: range(MAX_RETRIES + 1).
MoreAttemptsOffByOne(a) == a < MAX_RETRIES

\* range(MAX_RETRIES) has a further attempt after this one.
MoreAttempts(a) == a + 1 < MAX_RETRIES

\* return []
FallbackTranslationsNone(expected_count) == <<>>

\* return [""] * expected_count
FallbackTranslations(expected_count) == [i \in 1..expected_count |-> <<>>]

\* if response: return parse_translation_response(response, expected_count)
\* An exception of the parser is caught nowhere and ends the process.
ReturnParsed(response) ==
    LET r == parse_translation_response(response[1], Len(run_batches[run_cur].cues))
    IN /\ run_parser_runs' = [run_parser_runs EXCEPT ![run_cur] = @ + 1]
       /\ run_responses' = [run_responses EXCEPT ![run_cur] = response]
       /\ IF r.raised
          THEN run_pc' = "crashed" /\ UNCHANGED run_translations
          ELSE run_pc' = "apply" /\ run_translations' = r.value
       /\ run_phases' = [run_phases EXCEPT ![run_cur] = Append(@, "ParsingResponse")]
       /\ UNCHANGED <<run_attempt, run_fallback>>

\* The response was None or empty and attempts are left: the next one.
Retry ==
    /\ run_attempt' = run_attempt + 1
    /\ run_pc' = "request"
    /\ UNCHANGED <<run_translations, run_parser_runs, run_responses, run_fallback, run_phases>>

\* All retries failed.
Exhausted ==
    /\ run_translations' = FallbackTranslations(Len(run_batches[run_cur].cues))
    /\ run_fallback' = run_fallback \cup {run_cur}
    /\ run_pc' = "apply"
    /\ UNCHANGED <<run_attempt, run_parser_runs, run_responses, run_phases>>

\* A loop that also retries when the parsed response has an empty entry.
HandleResponseRetryOnShortfall(response) ==
    IF /\ Truthy(response)
       /\ LET r == parse_translation_response(response[1], Len(run_batches[run_cur].cues))
          IN ~r.raised /\ \A i \in 1..Len(r.value) : r.value[i] # <<>>
    THEN ReturnParsed(response)
    ELSE IF MoreAttempts(run_attempt) THEN Retry
    ELSE Exhausted

\* What the loop of translate_batch_with_retry does with the provider's
\* answer.
HandleResponse(response) ==
    IF Truthy(response) THEN ReturnParsed(response)
    ELSE IF MoreAttempts(run_attempt) THEN Retry
    ELSE Exhausted

\* translate_with_chatgpt returns.
ProviderReturns ==
    /\ run_pc = "waiting"
    /\ \E response \in ProviderResults :
          /\ run_calls' = [run_calls EXCEPT ![run_cur] = Append(@, Truthy(response))]
          /\ HandleResponse(response)
    /\ run_inflight' = run_inflight \ {run_cur}
    /\ UNCHANGED <<run_content, run_session, run_batch_size, run_context_size, run_cues, run_batches, run_cur,
                   run_failed_batches, run_output_content, run_returned, run_failed_in, run_delays, run_summary,
                   run_prompt, run_sent, idle_vars>>

\* The translation is written whether empty or not.
AppliedTextNoFallback(cue, translation) == Some(translation)

\* if translation: translated_text = translation, else: = text
AppliedText(cue, translation) ==
    IF translation # <<>> THEN Some(translation) ELSE Some(cue.text)

\* The translations written from the start of the whole cue list instead
\* of onto the cues of the batch.
ApplyFromListStart(cs, batch, trs, i) ==
    [r \in 1..Len(cs) |->
        IF r <= Len(trs)
        THEN [cs[r] EXCEPT !.translated_text = AppliedText(cs[r], trs[r])]
        ELSE cs[r]]

\* The translations written onto the cues of the batch, and the cues of
\* its next_context marked with their source text as well.
ApplyFromWithContext(cs, batch, trs, i) ==
    [r \in 1..Len(cs) |->
        IF \E k \in 1..Len(trs) : batch.cues[k] = r
        THEN [cs[r] EXCEPT !.translated_text =
                 AppliedText(cs[r], trs[CHOOSE k \in 1..Len(trs) : batch.cues[k] = r])]
        ELSE IF \E k \in 1..Len(batch.next_context) : batch.next_context[k] = r
        THEN [cs[r] EXCEPT !.translated_text = Some(cs[r].text)]
        ELSE cs[r]]

\* The translations written onto the cues of the batch, and the cues of
\* its prev_context set back to their source text.
ApplyFromWithPrev(cs, batch, trs, i) ==
    [r \in 1..Len(cs) |->
        IF \E k \in 1..Len(trs) : batch.cues[k] = r
        THEN [cs[r] EXCEPT !.translated_text =
                 AppliedText(cs[r], trs[CHOOSE k \in 1..Len(trs) : batch.cues[k] = r])]
        ELSE IF \E k \in 1..Len(batch.prev_context) : batch.prev_context[k] = r
        THEN [cs[r] EXCEPT !.translated_text = Some(cs[r].text)]
        ELSE cs[r]]

\* The loop "for i, translation in enumerate(translations)" on the cues of
\* a batch, from entry i on: the cue list afterwards.
RECURSIVE ApplyFrom(_, _, _, _)
ApplyFrom(cs, batch, trs, i) ==
    IF i > Len(trs) THEN cs
    ELSE LET ref == batch.cues[i]
         IN ApplyFrom([cs EXCEPT ![ref].translated_text = AppliedText(cs[ref], trs[i])],
                      batch, trs, i + 1)

\* The increments of failed_batches of that loop.
FailedCount(trs) == Cardinality({i \in 1..Len(trs) : trs[i] = <<>>})

\* The batch the for loop of translate turns to, or the end of the loop.
AfterBatch == IF run_cur < Len(run_batches) THEN "request" ELSE "generate"

\* translate: the translations of the current batch are applied to its cues.
ApplyTranslations ==
    /\ run_pc = "apply"
    /\ run_cues' = ApplyFrom(run_cues, run_batches[run_cur], run_translations, 1)
    /\ run_failed_batches' = run_failed_batches + FailedCount(run_translations)
    /\ run_returned' = [run_returned EXCEPT ![run_cur] = run_translations]
    /\ run_failed_in' = [run_failed_in EXCEPT ![run_cur] = FailedCount(run_translations)]
    /\ run_pc' = AfterBatch
    /\ run_cur' = IF run_cur < Len(run_batches) THEN run_cur + 1 ELSE run_cur
    /\ run_attempt' = 0
    /\ run_phases' = [run_phases EXCEPT ![run_cur] =
                         Append(@, IF run_cur \in run_fallback THEN "Fallback" ELSE "Applied")]
    /\ UNCHANGED <<run_content, run_session, run_batch_size, run_context_size, run_batches, run_inflight, run_translations,
                   run_output_content, run_calls, run_parser_runs, run_responses, run_fallback, run_delays,
                   run_summary, run_prompt, run_sent, idle_vars>>

\* A count of every cue that has a translated_text.
translated_count_all(cues) ==
    Cardinality({r \in 1..Len(cues) : Truthy(cues[r].translated_text)})

\* sum(1 for c in cues if c.translated_text and c.translated_text != c.text)
translated_count(cues) ==
    Cardinality({r \in 1..Len(cues) :
                    /\ Truthy(cues[r].translated_text)
                    /\ cues[r].translated_text[1] # cues[r].text})

\* The summary: "Translated: {translated_count}" always, and
\* "{failed_batches} cues failed and kept original text" only for a
\* count above 0.
Summary(cues, failed_batches) ==
    [translated |-> translated_count(cues),
     failed     |-> IF failed_batches > 0 THEN <<failed_batches>> ELSE <<>>]

\* translate: generate_srt(cues, use_translated=True) is written out and
\* the summary is printed.
GenerateOutput ==
    /\ run_pc = "generate"
    /\ run_output_content' = Some(generate_srt(run_cues, TRUE))
    /\ run_summary' = Some(Summary(run_cues, run_failed_batches))
    /\ run_pc' = "done"
    /\ UNCHANGED <<run_content, run_session, run_batch_size, run_context_size, run_cues, run_batches, run_cur, run_attempt,
                   run_inflight, run_translations, run_failed_batches, run_calls, run_parser_runs, run_responses,
                   run_fallback, run_returned, run_failed_in, run_delays, run_prompt, run_sent, run_phases,
                   idle_vars>>

Next ==
    \/ LoadSession
    \/ ReadInput
    \/ SendRequest
    \/ ProviderReturns
    \/ ApplyTranslations
    \/ GenerateOutput

Spec == Init /\ [][Next]_vars

\* A step of the loop over the batches, or the writing of the output that
\* follows it.
LoopStep ==
    \/ SendRequest
    \/ ProviderReturns
    \/ ApplyTranslations
    \/ GenerateOutput

\* The run as a sequential program: once in the loop over its batches it
\* takes its next step whenever it has one.  The step of a pending
\* provider call is its return, which subprocess.run brings about after
\* 120 s at the latest.
SpecLive == Init /\ [][Next]_vars /\ WF_vars(LoopStep)

\* The runs of translate for every batch_size and context_size the command
\* accepts.
SpecAnySize == InitAnySize /\ [][Next]_vars

----------------------------------------------------------------------------
\* build_translation_prompt on batches and language codes drawn from small
\* sets.

MaxPromptCues == 2

MaxPromptContext == 1

\* Cue texts as parse_srt returns them: one line, two lines, two lines of
\* which the second starts like a numbered line, one line that starts like
\* a numbered line.
PromptTexts ==
    {<<"a">>,
     <<"b", LF, "c">>,
     <<"a", LF, "2", ".", " ", "b">>,
     <<"7", ".", " ", "d">>}

PromptCues == {Cue(1, 0, 1000, t) : t \in PromptTexts}

\* A batch as create_batches builds it (at least one cue) and a language
\* code with an entry in lang_names or without one.
PromptInit ==
    /\ TimeIdle
    /\ CodecIdle
    /\ PlanIdle
    /\ RespIdle
    /\ RunIdle
    /\ CallIdle
    /\ OAuthIdle
    /\ prompt_pc = "input"
    /\ prompt_batch \in
          {[cues |-> cs, prev_context |-> pc, next_context |-> nc] :
              cs \in SeqsUpTo(PromptCues, MaxPromptCues) \ {<<>>},
              pc \in SeqsUpTo(PromptCues, MaxPromptContext),
              nc \in SeqsUpTo(PromptCues, MaxPromptContext)}
    /\ prompt_lang \in {<<"zh-TW">>, <<"x", "x">>}
    /\ prompt_text = <<>>

BuildPrompt ==
    /\ prompt_pc = "input"
    /\ prompt_text' = build_translation_prompt(prompt_batch, prompt_lang)
    /\ prompt_pc' = "built"
    /\ UNCHANGED <<prompt_batch, prompt_lang, time_vars, codec_vars, plan_vars, resp_vars, run_vars,
                   call_vars,
                   oauth_vars>>

PromptNext == BuildPrompt

SpecPrompt == PromptInit /\ [][PromptNext]_vars

----------------------------------------------------------------------------
\* translate_with_chatgpt.  A line of curl's stdout is a record: kind
\*   "delta"      data: {"type": "response.output_text.delta", "delta": ...}
\*   "error"      data: {"type": "error", ...}
\*   "other"      data: a JSON object of any other type
\*   "malformed"  data: text that is no JSON
\*   "nondict"    data: a JSON value that is no object
\*   "done"       data: [DONE]
\*   "blank"      an empty line
\*   "detail"     {"detail": ...}, the body of an error response
StreamLine(kind, delta) == [kind |-> kind, delta |-> delta]

\* A loop that hands back the text collected so far at an error event.
RECURSIVE ReadStreamKeepText(_, _, _)
ReadStreamKeepText(lines, i, full_text) ==
    IF i > Len(lines) THEN [state |-> "end", text |-> full_text]
    ELSE IF lines[i].kind = "done" THEN [state |-> "end", text |-> full_text]
    ELSE IF lines[i].kind = "delta" THEN ReadStreamKeepText(lines, i + 1, full_text \o lines[i].delta)
    ELSE IF lines[i].kind = "error" THEN [state |-> "end", text |-> full_text]
    ELSE IF lines[i].kind = "nondict" THEN [state |-> "raised", text |-> full_text]
    ELSE ReadStreamKeepText(lines, i + 1, full_text)

\* The loop over result.stdout.split("\n") from line i on: "end" with the
\* text collected at [DONE] or after the last line, "error" at an error
\* event, "raised" where event.get fails on a value that is no object.
RECURSIVE ReadStream(_, _, _)
ReadStream(lines, i, full_text) ==
    IF i > Len(lines) THEN [state |-> "end", text |-> full_text]
    ELSE IF lines[i].kind = "done" THEN [state |-> "end", text |-> full_text]
    ELSE IF lines[i].kind = "delta" THEN ReadStream(lines, i + 1, full_text \o lines[i].delta)
    ELSE IF lines[i].kind = "error" THEN [state |-> "error", text |-> full_text]
    ELSE IF lines[i].kind = "nondict" THEN [state |-> "raised", text |-> full_text]
    ELSE ReadStream(lines, i + 1, full_text)

\* "detail" in result.stdout, and json.loads(result.stdout) succeeds: the
\* stdout is one JSON object, with blank lines around it at most.
DetailBody(lines) ==
    /\ \E i \in 1..Len(lines) : lines[i].kind = "detail"
    /\ Cardinality({i \in 1..Len(lines) : lines[i].kind # "blank"}) = 1

translate_with_chatgpt(proc) ==
    IF proc.status = "timeout" THEN CallResult(None, "request timed out")
    ELSE IF proc.status = "oserror" THEN CallResult(None, "request failed")
    ELSE IF proc.returncode # 0 THEN CallResult(None, "curl failed")
    ELSE LET read == ReadStream(proc.stdout, 1, <<>>)
         IN IF read.state = "error" THEN CallResult(None, "API error")
            ELSE IF read.state = "raised" THEN CallResult(None, "request failed")
            ELSE IF read.text # <<>> THEN CallResult(Some(Strip(read.text)), "")
            ELSE IF DetailBody(proc.stdout) THEN CallResult(None, "API error")
            ELSE CallResult(None, "empty response")

MaxStreamLines == 3

\* Lines of a stream: text deltas, one of them white space only, and one
\* line of each other kind.
StreamLines ==
    {StreamLine("delta", <<"X">>), StreamLine("delta", <<"Y">>), StreamLine("delta", <<" ">>)}
    \cup {StreamLine(k, <<>>) :
             k \in {"error", "other", "malformed", "nondict", "done", "blank", "detail"}}

\* The ways the call of curl ends: with returncode 0 and a stdout, with
\* another returncode, with the timeout, with an exception.
CallOutcomes ==
    {Process("exit", 0, ls) : ls \in SeqsUpTo(StreamLines, MaxStreamLines)}
    \cup {Process("exit", 7, <<>>), Process("timeout", 0, <<>>), Process("oserror", 0, <<>>)}

CallInit ==
    /\ TimeIdle
    /\ CodecIdle
    /\ PlanIdle
    /\ RespIdle
    /\ RunIdle
    /\ PromptIdle
    /\ OAuthIdle
    /\ call_pc = "input"
    /\ call_proc \in CallOutcomes
    /\ call_result = CallResult(None, "")

CallProvider ==
    /\ call_pc = "input"
    /\ call_result' = translate_with_chatgpt(call_proc)
    /\ call_pc' = "returned"
    /\ UNCHANGED <<call_proc, time_vars, codec_vars, plan_vars, resp_vars, run_vars, prompt_vars, oauth_vars>>

CallNext == CallProvider

SpecCall == CallInit /\ [][CallNext]_vars

----------------------------------------------------------------------------
\* chatgpt_oauth_flow and the callback server (session_helper.py).  A
\* request is its path and the key=value pairs of its query string, in
\* order; a value is "" when the pair is blank.

MaxQueryParams == 3

MaxOAuthTimeout == 2

\* The paths of the requests the server may get: the two paths do_GET
\* handles, and another.
RequestPaths == {"/auth/callback", "/callback", "/favicon.ico"}

\* The pairs of a query string: a code, a blank code, the state of either
\* of two flows, an error, a parameter the handler does not read.
QueryPairs ==
    {<<"code", "c1">>, <<"code", "">>, <<"state", "s1">>, <<"state", "s2">>,
     <<"error", "access_denied">>, <<"session", "x">>}

Requests == [path : RequestPaths, query : SeqsUpTo(QueryPairs, MaxQueryParams)]

\* parse_qs(query).get(key, [None])[0]: parse_qs leaves out the pairs with
\* a blank value, and the first value left of a key is the one taken.
FirstValue(query, key) ==
    LET at == {j \in 1..Len(query) : query[j][1] = key /\ query[j][2] # ""}
    IN IF at = {} THEN None ELSE Some(query[Min(at)][2])

\* OAuthCallbackHandler.do_GET on the server: the three fields are stored
\* before the response is written, callback_received after it.  sent is
\* FALSE when writing the response raises (the client has gone); the
\* server's handle_error swallows the exception.
do_GET(server, request, sent) ==
    IF request.path # "/auth/callback" /\ request.path # "/callback" THEN server
    ELSE [callback_code |-> FirstValue(request.query, "code"),
          callback_state |-> FirstValue(request.query, "state"),
          callback_error |-> FirstValue(request.query, "error"),
          callback_received |-> server.callback_received \/ sent]

\* A flow that compares nothing.
StateUnchecked(server, state) == TRUE

\* not (server.callback_state != state)
StateMatches(server, state) == server.callback_state = Some(state)

\* The checks of the callback after the loop: TRUE when the flow goes on
\* to the token request.
CallbackAccepted(server, state) ==
    /\ server.callback_error = None
    /\ server.callback_code # None
    /\ StateMatches(server, state)

\* How the request to the token URL ends: curl's returncode is not 0, curl
\* runs into its 30 s timeout, curl cannot be started, stdout is no JSON,
\* is no JSON object, is an error response, has no access_token, or holds
\* the tokens.
TokenOutcomes ==
    {"curl_failed", "timeout", "oserror", "not_json", "not_object", "error_response",
     "no_access_token", "tokens"}

\* The value the flow returns after the token request.
Credentials(outcome) == IF outcome = "tokens" THEN Some([accessToken |-> "at"]) ELSE None

OAuthInit ==
    /\ TimeIdle
    /\ CodecIdle
    /\ PlanIdle
    /\ RespIdle
    /\ RunIdle
    /\ PromptIdle
    /\ CallIdle
    /\ oauth_pc = "start"
    /\ oauth_port \in {"free", "busy", "taken"}
    /\ oauth_timeout \in 1..MaxOAuthTimeout
    /\ oauth_elapsed = 0
    /\ oauth_state \in {"s1", "s2"}
    /\ oauth_server = NewServer
    /\ oauth_result = None
    /\ oauth_token_requests = 0
    /\ oauth_callback = None
    /\ oauth_timed_out = FALSE

oauth_others == <<time_vars, codec_vars, plan_vars, resp_vars, run_vars, prompt_vars, call_vars>>

\* From the check of the port to the start of the wait: a port in use ends
\* the flow with None, and the OSError of HTTPServer for a port bound in
\* between is not caught.
StartFlow ==
    /\ oauth_pc = "start"
    /\ oauth_pc' = CASE oauth_port = "busy" -> "returned"
                     [] oauth_port = "taken" -> "crashed"
                     [] OTHER -> "waiting"
    /\ UNCHANGED <<oauth_port, oauth_timeout, oauth_elapsed, oauth_state, oauth_server, oauth_result,
                   oauth_token_requests, oauth_callback, oauth_timed_out, oauth_others>>

\* The loop is entered.
InWait ==
    /\ oauth_pc = "waiting"
    /\ ~oauth_server.callback_received

\* An iteration of the loop in which handle_request gets no request within
\* its second.
WaitOneSecond ==
    /\ InWait
    /\ ~(oauth_elapsed > oauth_timeout)
    /\ oauth_elapsed' = oauth_elapsed + 1
    /\ UNCHANGED <<oauth_pc, oauth_port, oauth_timeout, oauth_state, oauth_server, oauth_result,
                   oauth_token_requests, oauth_callback, oauth_timed_out, oauth_others>>

\* An iteration of the loop in which handle_request gets a request.
HandleRequest ==
    /\ InWait
    /\ ~(oauth_elapsed > oauth_timeout)
    /\ \E request \in Requests, sent \in BOOLEAN :
          /\ oauth_server' = do_GET(oauth_server, request, sent)
          /\ oauth_callback' = IF do_GET(oauth_server, request, sent).callback_received
                               THEN Some(request) ELSE oauth_callback
    /\ UNCHANGED <<oauth_pc, oauth_port, oauth_timeout, oauth_elapsed, oauth_state, oauth_result,
                   oauth_token_requests, oauth_timed_out, oauth_others>>

\* The iteration that finds the time over.
TimeOut ==
    /\ InWait
    /\ oauth_elapsed > oauth_timeout
    /\ oauth_timed_out' = TRUE
    /\ oauth_pc' = "returned"
    /\ UNCHANGED <<oauth_port, oauth_timeout, oauth_elapsed, oauth_state, oauth_server, oauth_result,
                   oauth_token_requests, oauth_callback, oauth_others>>

\* The checks after the loop.
CheckCallback ==
    /\ oauth_pc = "waiting"
    /\ oauth_server.callback_received
    /\ oauth_pc' = IF CallbackAccepted(oauth_server, oauth_state) THEN "exchange" ELSE "returned"
    /\ UNCHANGED <<oauth_port, oauth_timeout, oauth_elapsed, oauth_state, oauth_server, oauth_result,
                   oauth_token_requests, oauth_callback, oauth_timed_out, oauth_others>>

\* The request to the token URL and what the flow makes of its answer.
ExchangeTokens ==
    /\ oauth_pc = "exchange"
    /\ oauth_token_requests' = oauth_token_requests + 1
    /\ \E outcome \in TokenOutcomes : oauth_result' = Credentials(outcome)
    /\ oauth_pc' = "returned"
    /\ UNCHANGED <<oauth_port, oauth_timeout, oauth_elapsed, oauth_state, oauth_server, oauth_callback,
                   oauth_timed_out, oauth_others>>

OAuthNext ==
    \/ StartFlow
    \/ WaitOneSecond
    \/ HandleRequest
    \/ TimeOut
    \/ CheckCallback
    \/ ExchangeTokens

SpecOAuth == OAuthInit /\ [][OAuthNext]_vars

\* ------------------------------------------------------------------------
\* Properties
\* ------------------------------------------------------------------------

\* The timings and source texts of a cue list, in order.
TimingsAndTexts(cues) ==
    [i \in 1..Len(cues) |-> <<cues[i].start_time, cues[i].end_time, cues[i].text>>]

\* C1: round trip.  parse_srt(generate_srt(cues, use_translated=False))
\* has the length of cues and its i-th cue has the start_time, end_time and
\* text of the i-th input cue, for every cue list with
\* 0 <= start_time <= end_time and one or more lines of text.
C1_RoundTrip ==
    (codec_pc = "parsed" /\ ~codec_use)
        => TimingsAndTexts(codec_parsed) = TimingsAndTexts(codec_cues)

RECURSIVE ConcatCues(_)
ConcatCues(batches) ==
    IF batches = <<>> THEN <<>>
    ELSE Head(batches).cues \o ConcatCues(Tail(batches))

Elems(s) == {s[i] : i \in 1..Len(s)}

\* C2: batch coverage.  For a positive batch_size and any context_size the
\* cues lists of the batches are pairwise disjoint and their concatenation,
\* in batch order, is the cue list.
C2_BatchCoverage ==
    plan_pc = "planned" =>
        /\ ConcatCues(plan_batches) = plan_cues
        /\ \A j, k \in 1..Len(plan_batches) :
              j # k => Elems(plan_batches[j].cues) \cap Elems(plan_batches[k].cues) = {}

\* A plan of several batches whose last batch is shorter than the others,
\* with contexts around them.
C2_Witness ==
    /\ plan_pc = "planned"
    /\ Len(plan_cues) = 5
    /\ plan_batch_size = 2
    /\ plan_context_size = 2
    /\ Len(plan_batches) = 3

\* C5: for every response and every expected_count >= 0,
\* parse_translation_response returns, without raising, a list of exactly
\* expected_count strings, whatever the leading numbers (0 included).
C5_ExactCount ==
    resp_pc = "parsed" =>
        /\ ~resp_result.raised
        /\ Len(resp_result.value) = resp_expected

\* The lines of the response that match the numbered-line pattern and
\* carry the number k.
LinesNumbered(response, k) ==
    LET lines == Split(Strip(response), LF)
    IN {i \in 1..Len(lines) : LineMatches(lines[i]) /\ LineNum(lines[i]) = k}

\* C6: when parse_translation_response returns, entry k-1 of the result
\* (k in 1..expected_count) is the text of the last matched line numbered
\* k, and the empty string when no matched line is numbered k.
C6_IndexedByNumber ==
    (resp_pc = "parsed" /\ ~resp_result.raised) =>
        \A k \in 1..resp_expected :
            /\ k <= Len(resp_result.value)
            /\ resp_result.value[k] =
                 IF LinesNumbered(resp_text, k) = {} THEN <<>>
                 ELSE LineText(Split(Strip(resp_text), LF)[Max(LinesNumbered(resp_text, k))])

\* The cues of batch b, as positions of the cue list.
BatchRefs(b) == Elems(run_batches[b].cues)

\* The loop of translate has applied the translations of batch b.
Applied(b) ==
    \/ b < run_cur
    \/ (b = run_cur /\ run_pc \in {"generate", "done"})

\* translate_batch_with_retry has ended for batch b, by a return or an
\* exception.
Finished(b) ==
    \/ b < run_cur
    \/ (b = run_cur /\ run_pc \in {"apply", "generate", "done", "crashed"})

AllFailed(c) == \A k \in 1..Len(c) : ~c[k]

\* C3: fallback.  When every provider attempt of a batch failed, the batch
\* is applied next and not dropped; once applied, each of its cues has
\* translated_text equal to its source text and each is counted as failed;
\* the run is not ended by it (an uncaught exception never belongs to an
\* exhausted batch) and a run that ends normally has written its output.
C3_Fallback ==
    /\ \A b \in run_fallback :
          /\ ~Applied(b) => (run_pc = "apply" /\ run_cur = b)
          /\ Applied(b) =>
                /\ \A ref \in BatchRefs(b) :
                      run_cues[ref].translated_text = Some(run_cues[ref].text)
                /\ run_failed_in[b] = Len(run_batches[b].cues)
    /\ run_pc = "crashed" => run_cur \notin run_fallback
    /\ run_pc = "done" => run_output_content # None

\* A provider that always fails, over several batches: the run is done and
\* has written its output.
C3_Witness ==
    /\ run_pc = "done"
    /\ Len(run_batches) >= 2
    /\ run_fallback = 1..Len(run_batches)
    /\ run_output_content # None

\* The output document holds exactly one block per parsed cue, in order,
\* numbered from 1, with the cue's start and end time and with the cue's
\* translation or its source text.
OutputComplete ==
    /\ run_output_content # None
    /\ LET out == parse_srt(run_output_content[1])
       IN /\ Len(out) = Len(run_cues)
          /\ \A i \in 1..Len(out) :
                /\ out[i].index = i
                /\ out[i].start_time = run_cues[i].start_time
                /\ out[i].end_time = run_cues[i].end_time
                /\ \/ out[i].text = run_cues[i].text
                   \/ Some(out[i].text) = run_cues[i].translated_text

C7_BoundedRetry ==
    \A b \in 1..Len(run_batches) :
        LET c == run_calls[b]
        IN /\ Len(c) <= MAX_RETRIES
           /\ Finished(b) => Len(c) >= 1
           /\ \A k \in 1..(Len(c) - 1) : ~c[k]
           /\ b \in run_fallback <=> (Len(c) = MAX_RETRIES /\ AllFailed(c))

\* One batch answered at its last attempt after two failures, another one
\* exhausted.
C7_Witness ==
    /\ \E b \in 1..Len(run_batches) : run_calls[b] = <<FALSE, FALSE, TRUE>>
    /\ run_fallback # {}

\* C8: a parsing shortfall never triggers a retry.  The response parser has
\* run once per successful provider call of a batch, at most once per
\* batch, and no provider call of the batch follows a successful one.
C8_NoRetryOnShortfall ==
    \A b \in 1..Len(run_batches) :
        LET c == run_calls[b]
        IN /\ run_parser_runs[b] = Cardinality({k \in 1..Len(c) : c[k]})
           /\ run_parser_runs[b] <= 1
           /\ \A k \in 1..Len(c) : c[k] => k = Len(c)
           /\ (b = run_cur /\ ~AllFailed(c)) => run_pc \notin {"request", "waiting"}

\* A response without any numbered line: all entries empty, the batch
\* applied after one call and not as a fallback.
C8_Witness ==
    \E b \in 1..Len(run_batches) :
        /\ Applied(b)
        /\ b \notin run_fallback
        /\ run_calls[b] = <<TRUE>>
        /\ Len(run_returned[b]) = 2
        /\ \A i \in 1..Len(run_returned[b]) : run_returned[b][i] = <<>>

RECURSIVE Sum(_)
Sum(s) == IF s = <<>> THEN 0 ELSE Head(s) + Sum(Tail(s))

\* C9: applied.  After a batch is processed, for every position i of the
\* batch: the cue's translated_text is parsed entry i when that is
\* non-empty, else the cue's source text, and the failed counter has gone
\* up by one for each such cue and by nothing else.
C9_Applied ==
    /\ \A b \in 1..Len(run_batches) :
          Applied(b) =>
             /\ Len(run_returned[b]) = Len(run_batches[b].cues)
             /\ \A i \in 1..Len(run_batches[b].cues) :
                   LET cue == run_cues[run_batches[b].cues[i]]
                       entry == run_returned[b][i]
                   IN cue.translated_text =
                         IF entry # <<>> THEN Some(entry) ELSE Some(cue.text)
             /\ run_failed_in[b] =
                   Cardinality({i \in 1..Len(run_returned[b]) : run_returned[b][i] = <<>>})
    /\ run_failed_batches = Sum(run_failed_in)

\* A batch of two cues applied from a response with a gap: one cue keeps
\* its source text, the other gets its translation.
C9_Witness ==
    \E b \in 1..Len(run_batches) :
        /\ Applied(b)
        /\ run_returned[b] = <<<<>>, <<"Y">>>>
        /\ run_failed_in[b] = 1

\* C10: batches are processed in order, one at a time.  At most one
\* provider request is in flight, it belongs to the batch the loop is at,
\* and when a request of batch b has been issued the translations of batch
\* b - 1 have been applied to its cues.
C10_Sequential ==
    /\ Cardinality(run_inflight) <= 1
    /\ \A b \in run_inflight : b = run_cur
    /\ \A b \in 2..Len(run_batches) :
          (run_calls[b] # <<>> \/ b \in run_inflight) =>
             /\ Applied(b - 1)
             /\ Len(run_returned[b - 1]) = Len(run_batches[b - 1].cues)
             /\ \A ref \in BatchRefs(b - 1) : run_cues[ref].translated_text # None

\* The request of a later batch is in flight.
C10_Witness ==
    /\ run_pc = "waiting"
    /\ run_inflight = {3}

\* The matched lines of a response are exactly one line numbered k for each
\* item k in 1..n, each with a non-empty text.
OneLinePerItem(response, n) ==
    LET lines == Split(Strip(response), LF)
        matched == {j \in 1..Len(lines) : LineMatches(lines[j])}
    IN /\ \A j \in matched : LineNum(lines[j]) \in 1..n /\ LineText(lines[j]) # <<>>
       /\ \A k \in 1..n : Cardinality(LinesNumbered(response, k)) = 1

\* The batch of the i-th cue and the cue's item number in that batch, for
\* consecutive batches of batch_size cues.
BatchOf(i) == ((i - 1) \div run_batch_size) + 1

ItemOf(i) == ((i - 1) % run_batch_size) + 1

\* The number of cues of batch b of a list of n cues.
ItemsOf(b, n) == Min({run_batch_size, n - (b - 1) * run_batch_size})

\* The text of the line numbered k of a response.
TextNumbered(response, k) ==
    LineText(Split(Strip(response), LF)[CHOOSE j \in LinesNumbered(response, k) : TRUE])

\* The response handed to the parser for batch b has one non-empty
\* numbered line for each item of the batch.
Echoed(b, n) ==
    /\ b \in 1..Len(run_responses)
    /\ run_responses[b] # None
    /\ OneLinePerItem(run_responses[b][1], ItemsOf(b, n))

\* C11: end-to-end alignment.  When the response for every batch has one
\* non-empty numbered line k for each item k of the batch, block i of the
\* output document is numbered i, has the start and end time of the i-th
\* cue of the input file and carries the text of the line numbered for that
\* cue in the response of the cue's batch; such a response never ends the
\* run with an exception.
C11_Alignment ==
    LET src == parse_srt(run_content)
    IN /\ (run_pc = "done" /\ \A i \in 1..Len(run_cues) : Echoed(BatchOf(i), Len(run_cues))) =>
             /\ run_output_content # None
             /\ LET out == parse_srt(run_output_content[1])
                IN /\ Len(out) = Len(src)
                   /\ \A i \in 1..Len(src) :
                         /\ out[i].index = i
                         /\ out[i].start_time = src[i].start_time
                         /\ out[i].end_time = src[i].end_time
                         /\ out[i].text =
                               TextNumbered(run_responses[BatchOf(i)][1], ItemOf(i))
       /\ run_pc = "crashed" => ~Echoed(run_cur, Len(run_cues))

\* Three cues in batches of two, answered "1. X, 2. Y" and "1. R": the
\* output is written.
C11_Witness ==
    /\ run_pc = "done"
    /\ Len(run_cues) = 3
    /\ run_batch_size = 2
    /\ run_responses = <<Some(<<"1", ".", " ", "X", LF, "2", ".", " ", "Y">>),
                         Some(<<"1", ".", " ", "R">>)>>
    /\ run_output_content # None

\* A string of the form HH:MM:SS,mmm, or with a period before the mmm.
TimestampForm(ts, seps) ==
    /\ Len(ts) = 12
    /\ \A i \in {1, 2, 4, 5, 7, 8, 10, 11, 12} : ts[i] \in Digits
    /\ ts[3] = ":" /\ ts[6] = ":" /\ ts[9] \in seps

\* The number a field of two or three digits stands for.
FieldValue(ts, from, to) ==
    IF to = from + 1 THEN DigitVal(ts[from]) * 10 + DigitVal(ts[to])
    ELSE DigitVal(ts[from]) * 100 + DigitVal(ts[from + 1]) * 10 + DigitVal(ts[to])

\* ((H * 3600) + (M * 60) + S) * 1000 + mmm
MillisOf(ts) ==
    ((FieldValue(ts, 1, 2) * 3600) + (FieldValue(ts, 4, 5) * 60) + FieldValue(ts, 7, 8)) * 1000
        + FieldValue(ts, 10, 12)

\* C14: for every timestamp HH:MM:SS,mmm or HH:MM:SS.mmm, of two-digit H,
\* M, S and three-digit mmm, parse_timestamp returns exactly
\* ((H * 3600) + (M * 60) + S) * 1000 + mmm and does not raise.
C14_ParseExact ==
    /\ (time_pc \in {"parsed", "reformatted"} /\ TimestampForm(time_ts_in, {",", "."})) =>
          (~time_ms_out.raised /\ time_ms_out.value = MillisOf(time_ts_in))
    /\ time_pc = "rejected" => ~TimestampForm(time_ts_in, {",", "."})

\* 00:01:02.345, with a period, parsed to 62345.
C14_Witness ==
    /\ time_pc = "parsed"
    /\ time_ts_in = <<"0", "0", ":", "0", "1", ":", "0", "2", ".", "3", "4", "5">>
    /\ time_ms_out = ReturnedInt(62345)

\* C15: format_timestamp and parse_timestamp are inverse to each other.
\* For every ms >= 0, format_timestamp(ms) has the fixed-width form
\* HH:MM:SS,mmm and parse_timestamp gives ms back for it; for every
\* timestamp ts of the form HH:MM:SS,mmm, format_timestamp gives ts back
\* for parse_timestamp(ts).
C15_Inverse ==
    /\ time_pc \in {"formatted", "reparsed"} => TimestampForm(time_ts_out, {","})
    /\ time_pc = "reparsed" => (~time_ms_out.raised /\ time_ms_out.value = time_ms_in)
    /\ (time_pc = "reformatted" /\ TimestampForm(time_ts_in, {","})) =>
          time_ts_out = time_ts_in

\* The fields of a cue that parse_srt sets.
ParsedFields(cue) == <<cue.index, cue.start_time, cue.end_time, cue.text>>

\* The cues of the contexts of batch b, as positions of the cue list.
ContextRefs(b) == Elems(run_batches[b].prev_context) \cup Elems(run_batches[b].next_context)

\* C12: frame.  No step after parsing changes the number of cues or a
\* cue's index, start_time, end_time or source text; a cue's
\* translated_text changes only in the step that processes a batch and only
\* when the cue is in that batch's own cues list; the cues of the batch's
\* prev_context and next_context are left as they are by that step.
C12_Frame ==
    [][run_pc # "start" =>
          /\ Len(run_cues') = Len(run_cues)
          /\ \A i \in 1..Len(run_cues) :
                /\ ParsedFields(run_cues'[i]) = ParsedFields(run_cues[i])
                /\ run_cues'[i].translated_text # run_cues[i].translated_text
                      => (run_pc = "apply" /\ i \in BatchRefs(run_cur))
                /\ (run_pc = "apply" /\ i \in ContextRefs(run_cur))
                      => run_cues'[i] = run_cues[i]]_vars

\* The first batch, of one cue and with the second cue as its
\* next_context, has been processed: its cue is translated, the second cue
\* is not.
C12_Witness ==
    /\ run_pc = "request"
    /\ run_cur = 2
    /\ run_batches[1].next_context = <<2>>
    /\ run_batches[2].prev_context = <<1>>
    /\ run_cues[1].translated_text = Some(<<"R">>)
    /\ run_cues[2].translated_text = None

\* The session file is missing, cannot be read or holds no JSON object.
SessionUnusable == run_session.file # "json" \/ run_session.value # "dict"

\* The session's expiresAt is an instant that is not after now.
TokenExpired ==
    /\ ~SessionUnusable
    /\ run_session.expiresAt.kind = "aware"
    /\ run_session.expiresAt.at <= 0

\* The session has no accessToken, or an empty one.
TokenMissing ==
    /\ ~SessionUnusable
    /\ (run_session.accessToken = None \/ run_session.accessToken = Some(<<>>))

\* The input file was read and parse_srt returned no cue.
ZeroCues == run_pc \notin {"load", "start"} /\ run_cues = <<>>

\* No provider call was made or is under way, no batch was planned and no
\* output document was written.
NoBatchWork ==
    /\ run_inflight = {}
    /\ run_batches = <<>>
    /\ \A b \in 1..Len(run_calls) : run_calls[b] = <<>>
    /\ run_output_content = None

\* C13: precondition failure.  With a session file that is missing,
\* unreadable or no JSON object, with an expired token or without an access
\* token, the run goes from loading the session straight to its failing
\* end; with an input file that is empty or yields no cue it goes from
\* reading the input straight to its failing end; in each case no provider
\* call is made and no output document is written.
C13_PreconditionFailure ==
    /\ (SessionUnusable \/ TokenExpired \/ TokenMissing) =>
          (run_pc \in {"load", "exit", "crashed"} /\ run_cues = <<>> /\ NoBatchWork)
    /\ (run_content \in {<<>>, MalformedDocument} \/ ZeroCues) =>
          (run_pc \in {"load", "start", "exit", "crashed"} /\ NoBatchWork)

\* A run has ended with sys.exit(1) on a token that expires at this very
\* instant.
C13_Witness ==
    /\ run_pc = "exit"
    /\ run_session = SessionFile("json", "dict", Expiry("aware", 0), Some(<<"t">>))
    /\ run_content = SampleDocument(2)

\* The cues of the well-formed blocks of a block list, in order.
RECURSIVE CuesOf(_)
CuesOf(blocks) ==
    IF blocks = <<>> THEN <<>>
    ELSE Head(blocks).cue \o CuesOf(Tail(blocks))

\* The blocks of a block list that are not well-formed.
Malformed(blocks) == {k \in 1..Len(blocks) : blocks[k].kind # "cue"}

\* C16: parse_srt returns for every input text; the cues it returns are
\* those of the well-formed blocks, in order, whatever blocks of fewer
\* than three lines or with a timing line that is not
\* "<start> --> <end>" of valid timestamps stand before, between or after
\* them; and it has printed one warning for each block it skipped.
C16_Lenient ==
    codec_pc = "read" =>
        /\ codec_parsed = CuesOf(codec_blocks)
        /\ Len(codec_warnings) = Cardinality(Malformed(codec_blocks))

\* The cues at positions from..to of the planned list (1-based, both
\* included), none when to < from.
CuesAt(from, to) == [k \in 1..(to - from + 1) |-> plan_cues[from + k - 1]]

\* C17: context clamping.  For context_size >= 0, a batch that starts at
\* 0-based position i has as prev_context exactly the min(context_size, i)
\* cues right before position i and as next_context exactly the cues right
\* after its last cue, context_size of them or as many as are left; the
\* first batch has no prev_context; and no context holds a cue of the
\* batch's own cues list.
C17_ContextClamping ==
    (plan_pc = "planned" /\ plan_context_size >= 0) =>
        \A b \in 1..Len(plan_batches) :
            LET batch == plan_batches[b]
                i == (b - 1) * plan_batch_size
                last == i + Len(batch.cues)
            IN /\ batch.start_index = i
               /\ batch.prev_context = CuesAt(i - Min({plan_context_size, i}) + 1, i)
               /\ batch.next_context =
                     CuesAt(last + 1, Min({last + plan_context_size, Len(plan_cues)}))
               /\ b = 1 => batch.prev_context = <<>>
               /\ Elems(batch.prev_context) \cap Elems(batch.cues) = {}
               /\ Elems(batch.next_context) \cap Elems(batch.cues) = {}

\* Five cues in batches of two with a context of two: the second batch
\* has both cues of the first before it and the one cue left after it.
C17_Witness ==
    /\ plan_pc = "planned"
    /\ Len(plan_cues) = 5
    /\ plan_batch_size = 2
    /\ plan_context_size = 2
    /\ plan_batches[1].prev_context = <<>>
    /\ plan_batches[1].next_context = <<3, 4>>
    /\ plan_batches[2].prev_context = <<1, 2>>
    /\ plan_batches[2].next_context = <<5>>

\* C18: batch sizes.  For a positive batch_size every batch has at least
\* one cue and at most batch_size, every batch but the last has exactly
\* batch_size, and an empty cue list gives an empty batch list.
C18_BatchSizes ==
    plan_pc = "planned" =>
        /\ \A b \in 1..Len(plan_batches) :
              /\ Len(plan_batches[b].cues) >= 1
              /\ Len(plan_batches[b].cues) <= plan_batch_size
              /\ b < Len(plan_batches) => Len(plan_batches[b].cues) = plan_batch_size
        /\ plan_cues = <<>> => plan_batches = <<>>

\* Five cues in batches of three: a full batch and a last one of two.
C18_Witness ==
    /\ plan_pc = "planned"
    /\ Len(plan_cues) = 5
    /\ plan_batch_size = 3
    /\ Len(plan_batches) = 2
    /\ Len(plan_batches[1].cues) = 3
    /\ Len(plan_batches[2].cues) = 2

\* The lines of a document written with "\r\n" between them, the mark at
\* its start left out: each "\r\n" ends a line, a line feed alone does not.
OutputLines(doc) ==
    LET body == Tail(doc)
        at == [i \in 1..Len(body) |->
                 IF body[i] = CR /\ i < Len(body) /\ body[i + 1] = LF THEN "EOL"
                 ELSE IF body[i] = LF /\ i > 1 /\ body[i - 1] = CR THEN "SKIP"
                 ELSE body[i]]
        NotSkipped(c) == c # "SKIP"
    IN Split(SelectSeq(at, NotSkipped), "EOL")

\* C19: renumbering.  The i-th block of the output of generate_srt starts
\* with the line i, for i in 1..N over the cue list, whatever the index
\* fields of the cues are.
C19_Renumbered ==
    codec_pc = "serialized" =>
        /\ codec_doc[1] = BOM
        /\ codec_cues # <<>> => Len(OutputLines(codec_doc)) = 4 * Len(codec_cues)
        /\ \A i \in 1..Len(codec_cues) :
              OutputLines(codec_doc)[4 * (i - 1) + 1] = Str(i)

\* Two cues with the indexes 7 and 0, in that order, were written.
C19_Witness ==
    /\ codec_pc = "serialized"
    /\ Len(codec_cues) = 2
    /\ codec_cues[1].index = 7
    /\ codec_cues[2].index = 0

\* A cue list with every translated_text taken away.
Untranslated(cues) == [i \in 1..Len(cues) |-> [cues[i] EXCEPT !.translated_text = None]]

\* C20: the text of the i-th block of the output of generate_srt is the
\* cue's translated_text when use_translated is true and the cue has one,
\* and the cue's source text otherwise; with use_translated false the
\* output is the one of the same cues without any translated_text.
C20_TextChoice ==
    codec_pc = "serialized" =>
        /\ \A i \in 1..Len(codec_cues) :
              OutputLines(codec_doc)[4 * (i - 1) + 3] =
                 IF codec_use /\ codec_cues[i].translated_text # None
                 THEN codec_cues[i].translated_text[1]
                 ELSE codec_cues[i].text
        /\ ~codec_use => codec_doc = generate_srt(Untranslated(codec_cues), FALSE)

\* With use_translated true, a cue without translated_text and one with it
\* were written.
C20_Witness ==
    /\ codec_pc = "serialized"
    /\ codec_use
    /\ Len(codec_cues) = 2
    /\ codec_cues[1].translated_text = None
    /\ codec_cues[2].translated_text = Some(<<"X">>)

\* C21: the output of generate_srt starts with one byte-order mark and has
\* no other; every line break in it is "\r\n": no line feed stands without
\* a carriage return before it, and no carriage return without a line feed
\* after it, the breaks between the lines of a cue text included.
C21_LineEndings ==
    codec_pc = "serialized" =>
        /\ codec_doc # <<>>
        /\ codec_doc[1] = BOM
        /\ \A i \in 2..Len(codec_doc) :
              /\ codec_doc[i] # BOM
              /\ codec_doc[i] = LF => codec_doc[i - 1] = CR
              /\ codec_doc[i] = CR => (i < Len(codec_doc) /\ codec_doc[i + 1] = LF)

\* The numbered lines of a response, in their order.
NumberedLines(text) == SelectSeq(Split(text, LF), LineMatches)

\* C22: lines that are no numbered line (an integer, then '.', ':' or ')',
\* then text) are ignored: the result of parse_translation_response on a
\* response is its result on the numbered lines of that response alone, so
\* two responses with the same numbered lines in the same order have the
\* same result, an exception included.
C22_OtherLinesIgnored ==
    resp_pc = "parsed" =>
        resp_result =
            parse_translation_response(Join(NumberedLines(resp_text), <<LF>>),
                                       resp_expected)

\* A parsed response with a line that is no numbered line between two
\* numbered ones, and a text returned.
C22_Witness ==
    /\ resp_pc = "parsed"
    /\ ~resp_result.raised
    /\ LET lines == Split(resp_text, LF)
       IN /\ Len(lines) = 3
          /\ LineMatches(lines[1])
          /\ ~LineMatches(lines[2])
          /\ LineMatches(lines[3])
    /\ \E k \in 1..Len(resp_result.value) : resp_result.value[k] # <<>>

\* The text a numbered line carries behind its separator, stripped.
CapturedText(line) == LET t == Strip(line) IN Strip(From(t, SeparatorAt(t) + 1))

QuoteChars == {"\"", "'"}

\* A text without the pair of equal quote characters around it, if it has one.
WithoutPair(t) ==
    IF Len(t) >= 2 /\ t[1] \in QuoteChars /\ t[Len(t)] = t[1]
    THEN SubSeq(t, 2, Len(t) - 1)
    ELSE t

\* C23: the text returned for a numbered line is its captured text without
\* the one pair of equal quote characters (double or single) around it, and
\* the captured text unchanged when there is no such pair.  Read off the
\* entry of the last numbered line of a response, which no later line
\* overwrites.
C23_QuotePair ==
    (resp_pc = "parsed" /\ ~resp_result.raised) =>
        LET lines == NumberedLines(resp_text)
        IN lines # <<>> =>
             LET n == LineNum(lines[Len(lines)])
             IN n \in 1..resp_expected =>
                  resp_result.value[n] = WithoutPair(CapturedText(lines[Len(lines)]))

\* C24: backoff schedule.  Nothing is slept before the first attempt of a
\* batch; before attempt k >= 2 the sleep is
\* RETRY_BACKOFF[min(k - 2, len(RETRY_BACKOFF) - 1)] (indexed from 0), so
\* the sleeps of one batch grow strictly while they are within the schedule
\* 1, 2, 4, and a retry past the end of the schedule waits its last value.
C24_Backoff ==
    /\ \A b \in 1..Len(run_delays) :
          /\ \A k \in 1..Len(run_delays[b]) :
                run_delays[b][k] =
                    IF k = 1 THEN 0
                    ELSE RETRY_BACKOFF[Min({k - 2, Len(RETRY_BACKOFF) - 1}) + 1]
          /\ \A k \in 2..(Len(run_delays[b]) - 1) :
                k <= Len(RETRY_BACKOFF) => run_delays[b][k] < run_delays[b][k + 1]
    /\ RETRY_BACKOFF = <<1, 2, 4>>
    /\ \A n \in 1..(Len(RETRY_BACKOFF) - 1) : WaitTime(n) < WaitTime(n + 1)
    /\ \A n \in Len(RETRY_BACKOFF)..(Len(RETRY_BACKOFF) + MAX_RETRIES) :
          WaitTime(n) = RETRY_BACKOFF[Len(RETRY_BACKOFF)]

\* A batch whose three attempts have all been made: no sleep, then 1 s,
\* then 2 s.
C24_Witness ==
    /\ run_pc = "apply"
    /\ run_cur \in run_fallback
    /\ run_delays[run_cur] = <<0, 1, 2>>

\* C25: cue lifecycle.  In every step after parsing the cue list keeps its
\* cues (their number, order, index, times and source text); a
\* translated_text that is there is left as it is; a translated_text comes
\* to be only in the iteration of the batch that has the cue in its cues
\* list, and that iteration finds it absent and writes it, one translation
\* for each cue of the batch and no cue twice in the batch.
C25_Lifecycle ==
    [][run_pc # "start" =>
          /\ Len(run_cues') = Len(run_cues)
          /\ \A i \in 1..Len(run_cues) :
                /\ ParsedFields(run_cues'[i]) = ParsedFields(run_cues[i])
                /\ run_cues[i].translated_text # None
                      => run_cues'[i].translated_text = run_cues[i].translated_text
                /\ (run_cues[i].translated_text = None /\ run_cues'[i].translated_text # None)
                      => (run_pc = "apply" /\ i \in BatchRefs(run_cur))
                /\ (run_pc = "apply" /\ i \in BatchRefs(run_cur))
                      => (run_cues[i].translated_text = None /\ run_cues'[i].translated_text # None)
          /\ run_pc = "apply" =>
                /\ Len(run_translations) = Len(run_batches[run_cur].cues)
                /\ Cardinality(BatchRefs(run_cur)) = Len(run_batches[run_cur].cues)]_vars

\* The run is over after two batches: every cue has its translated_text,
\* the first one the translation "X" of the first batch.
C25_Witness ==
    /\ run_pc = "done"
    /\ Len(run_batches) = 2
    /\ run_context_size = 1
    /\ \A i \in 1..Len(run_cues) : run_cues[i].translated_text # None
    /\ run_cues[1].translated_text = Some(<<"X">>)

\* The cues that kept their source text because the entry returned for
\* them was empty: an empty parsed entry or the list of a batch without
\* attempts left.
FellBack ==
    {r \in 1..Len(run_cues) :
        \E b \in 1..Len(run_batches) : \E k \in 1..Len(run_returned[b]) :
            run_batches[b].cues[k] = r /\ run_returned[b][k] = <<>>}

\* C26: the summary after the last batch.  The count of failed cues that
\* is printed is the number of cues that fell back to their source text
\* (nothing is printed for none), and the count of translated cues is the
\* number of cues whose translated_text is not their source text.
C26_Summary ==
    run_pc = "done" =>
        /\ run_summary # None
        /\ run_summary[1].failed =
              (IF FellBack = {} THEN <<>> ELSE <<Cardinality(FellBack)>>)
        /\ run_summary[1].translated =
              Cardinality({r \in 1..Len(run_cues) :
                              run_cues[r].translated_text # Some(run_cues[r].text)})
        /\ \A r \in FellBack : run_cues[r].translated_text = Some(run_cues[r].text)

\* Three cues: one fell back, one is translated and one got its own text
\* back from the provider, which counts as neither.
C26_Witness ==
    /\ run_pc = "done"
    /\ Len(run_cues) = 3
    /\ run_summary = Some([translated |-> 1, failed |-> <<1>>])
    /\ run_cues[3].translated_text = Some(run_cues[3].text)
    /\ 3 \notin FellBack

\* The lines that follow the line header up to the next empty line.
SectionAfter(lines, header) ==
    LET hs == {j \in 1..Len(lines) : lines[j] = header}
    IN IF hs = {} THEN <<>>
       ELSE LET h == Min(hs)
                ends == {j \in (h + 1)..Len(lines) : lines[j] = <<>>}
                e == IF ends = {} THEN Len(lines) + 1 ELSE Min(ends)
            IN SubSeq(lines, h + 1, e - 1)

\* C27: in the prompt the section of the content to translate has exactly
\* one numbered line for each cue of batch.cues, numbered 1..N in that
\* order, line k being "k. " and the source text of the k-th cue; the
\* sections of prev_context and next_context have no numbered line.
C27_PromptNumbering ==
    prompt_pc = "built" =>
        LET lines == Split(prompt_text, LF)
            numbered == SelectSeq(SectionAfter(lines, TranslateHeader), LineMatches)
            context == SectionAfter(lines, PrevHeader) \o SectionAfter(lines, NextHeader)
        IN /\ Len(numbered) = Len(prompt_batch.cues)
           /\ \A k \in 1..Len(numbered) :
                 numbered[k] = Str(k) \o <<".", " ">> \o prompt_batch.cues[k].text
           /\ \A j \in 1..Len(context) : ~LineMatches(context[j])

\* C28: every cue parse_srt returns has a start_time and an end_time that
\* are non-negative integers, and its end_time is not before its
\* start_time.
C28_Timing ==
    codec_pc = "read" =>
        \A k \in 1..Len(codec_parsed) :
            /\ codec_parsed[k].start_time \in Nat
            /\ codec_parsed[k].end_time \in Nat
            /\ codec_parsed[k].end_time >= codec_parsed[k].start_time

\* The j-th smallest element of a set of numbers.
Nth(S, j) == CHOOSE x \in S : Cardinality({y \in S : y < x}) = j - 1

\* The lines of text of a block, as parse_srt joins them.
TextWritten(block) ==
    LET lines == Split(block.text, LF) IN Join(SubSeq(lines, 3, Len(lines)), <<LF>>)

\* C29: the cues parse_srt returns are those of the blocks it accepted, in
\* the order of the blocks in the document, each with the number written
\* on the first line of its block: there is a set of blocks, every
\* well-formed block in it, whose first lines and texts, taken in document
\* order, are the index and text of the cues returned.
C29_DocumentOrder ==
    codec_pc = "read" =>
        \E S \in SUBSET (1..Len(codec_blocks)) :
            /\ Cardinality(S) = Len(codec_parsed)
            /\ \A k \in 1..Len(codec_blocks) : codec_blocks[k].kind = "cue" => k \in S
            /\ \A j \in 1..Len(codec_parsed) :
                  LET block == codec_blocks[Nth(S, j)]
                      first == Split(block.text, LF)[1]
                  IN /\ IsInt(first)
                     /\ codec_parsed[j].index = IntOf(first)
                     /\ codec_parsed[j].text = TextWritten(block)

\* A document of three well-formed blocks numbered 7, 1 and 7 has been
\* read.
C29_Witness ==
    /\ codec_pc = "read"
    /\ Len(codec_blocks) = 3
    /\ [j \in 1..Len(codec_parsed) |-> codec_parsed[j].index] = <<7, 1, 7>>

\* The kind of a call that gave no text, by its cause: the transport (curl
\* did not run to the end, or ended with an error), the service (an error
\* event, or an error response as the body), or the body (nothing usable
\* in it).
FailureKind(proc) ==
    IF proc.status # "exit" \/ proc.returncode # 0 THEN "transport"
    ELSE IF ReadStream(proc.stdout, 1, <<>>).state = "error" \/ DetailBody(proc.stdout)
    THEN "service"
    ELSE "body"

Failed(result) == ~Truthy(result.value)

\* C30: the result of a provider call that failed tells the kind of the
\* failure: no call that fails for a cause of another kind (transport,
\* service, body) returns the same value.
C30_FailureKinds ==
    (call_pc = "returned" /\ Failed(call_result)) =>
        \A other \in CallOutcomes :
            (Failed(translate_with_chatgpt(other)) /\ FailureKind(other) # FailureKind(call_proc))
                => translate_with_chatgpt(other).value # call_result.value

\* The steps that may follow one another in the life of a batch; "Applied"
\* and "Fallback" are followed by nothing.
PhaseFollows(x, y) ==
    \/ (x = "Rendering" /\ y = "Requesting")
    \/ (x = "Requesting" /\ y \in {"Requesting", "ParsingResponse", "Fallback"})
    \/ (x = "ParsingResponse" /\ y = "Applied")

\* How often a step occurs in the life of a batch so far.
PhaseCount(b, x) == Cardinality({j \in 1..Len(run_phases[b]) : run_phases[b][j] = x})

\* C31: batch lifecycle.  A batch the loop has not reached has gone through
\* no step; the steps of a batch start with the rendering of its prompt,
\* which happens once and before the first request; requests follow, then
\* either the parsing of a response and "Applied", or "Fallback", and
\* nothing after these; every request of a batch carries the same prompt,
\* and the request that is out carries the one rendered from the batch;
\* the parser has run only as often as a
\* request gave text; and when the run is done every batch has ended in
\* exactly one of "Applied" and "Fallback".
C31_BatchLifecycle ==
    \A b \in 1..Len(run_phases) :
        LET ph == run_phases[b]
        IN /\ b > run_cur => ph = <<>>
           /\ ph # <<>> => ph[1] = "Rendering"
           /\ \A j \in 1..(Len(ph) - 1) : PhaseFollows(ph[j], ph[j + 1])
           /\ PhaseCount(b, "Rendering") <= 1
           /\ Len(run_sent[b]) = PhaseCount(b, "Requesting")
           /\ \A k \in 1..Len(run_sent[b]) : run_sent[b][k] = run_sent[b][1]
           /\ (b = run_cur /\ run_pc = "waiting") =>
                 run_sent[b][Len(run_sent[b])] =
                     build_translation_prompt(BatchWithCues(run_cues, run_batches[b]),
                                              DEFAULT_TARGET_LANG)
           /\ PhaseCount(b, "ParsingResponse") = run_parser_runs[b]
           /\ run_parser_runs[b] =
                 Cardinality({k \in 1..Len(run_calls[b]) : run_calls[b][k]})
           /\ run_pc = "done" =>
                 /\ ph[Len(ph)] \in {"Applied", "Fallback"}
                 /\ PhaseCount(b, "Applied") + PhaseCount(b, "Fallback") = 1

\* A run is done with a first batch that was applied after one request
\* and a second batch that fell back after three.
C31_Witness ==
    /\ run_pc = "done"
    /\ Len(run_phases) = 2
    /\ run_phases[1] = <<"Rendering", "Requesting", "ParsingResponse", "Applied">>
    /\ run_phases[2] = <<"Rendering", "Requesting", "Requesting", "Requesting", "Fallback">>
    /\ Len(run_sent[2]) = 3

\* The provider calls answered so far.
TotalCalls == Sum([b \in 1..Len(run_calls) |-> Len(run_calls[b])])

\* MAX_RETRIES * ceil(N / batch_size) for the N cues of the run
CallBound == MAX_RETRIES * ((Len(run_cues) + run_batch_size - 1) \div run_batch_size)

\* The run is in the loop over its batches.
InLoop == run_pc \in {"request", "waiting", "apply"}

\* C32: termination.  A run that has entered the loop over its batches
\* goes on to write its output, whatever the provider answers, and never
\* makes more than MAX_RETRIES * ceil(N / batch_size) provider calls.
C32_Termination ==
    /\ InLoop ~> (run_pc = "done")
    /\ [](TotalCalls <= CallBound)

\* The run ended with the exception of create_batches: the cues are parsed
\* and the loop over the batches was never entered.
PlannerCrashed == run_pc = "crashed" /\ run_cues # <<>> /\ run_cur = 0

\* The positions of the cues that belong to some batch of the run.
Batched == UNION {{run_batches[b].cues[k] : k \in 1..Len(run_batches[b].cues)} : b \in 1..Len(run_batches)}

\* C33: for every integer batch_size and context_size the command accepts,
\* the run does not end with an exception of the planner, and in a run that
\* has generated its output every parsed cue belongs to some batch and has
\* a translated_text.
C33_AnySize ==
    /\ ~PlannerCrashed
    /\ run_pc = "done" =>
           \A r \in 1..Len(run_cues) : r \in Batched /\ run_cues[r].translated_text # None

\* The callback carries what the flow asks for: no error, a code, and the
\* state generated for this flow.
GoodCallback(request) ==
    /\ FirstValue(request.query, "error") = None
    /\ FirstValue(request.query, "code") # None
    /\ FirstValue(request.query, "state") = Some(oauth_state)

\* A callback was received before the timeout, and it is a good one.
MayExchange ==
    /\ oauth_callback # None
    /\ ~oauth_timed_out
    /\ oauth_elapsed <= oauth_timeout
    /\ GoodCallback(oauth_callback[1])

DoneAt(lines) ==
    Min({i \in 1..Len(lines) : lines[i].kind = "done"} \cup {Len(lines) + 1})

\* The deltas of the text events among the first n lines, joined in order.
RECURSIVE DeltaText(_, _)
DeltaText(lines, n) ==
    IF n = 0 THEN <<>>
    ELSE DeltaText(lines, n - 1) \o (IF lines[n].kind = "delta" THEN lines[n].delta ELSE <<>>)

\* A line of one of the given kinds precedes [DONE].
KindBeforeDone(lines, kinds) ==
    \E i \in 1..(DoneAt(lines) - 1) : lines[i].kind \in kinds

\* curl ended with returncode 0 and the call has returned.
StreamRead ==
    /\ call_pc = "returned"
    /\ call_proc.status = "exit"
    /\ call_proc.returncode = 0

\* C34: the provider call assembles its result from the lines before
\* [DONE]: an error event among them, or a data line whose JSON is no
\* object, makes the call fail whatever text came before; otherwise the
\* call returns the deltas of the text events joined in arrival order with
\* the white space at both ends removed, and None when there is no delta
\* text at all.  Lines after [DONE], events of other types and lines of
\* malformed JSON change nothing.  The orchestrator's test 'if response'
\* passes exactly when the joined text has a character that is no white
\* space.
C34_StreamAssembly ==
    StreamRead =>
        LET lines == call_proc.stdout
            text == DeltaText(lines, DoneAt(lines) - 1)
        IN /\ IF KindBeforeDone(lines, {"error", "nondict"}) THEN call_result.value = None
              ELSE IF text = <<>> THEN call_result.value = None
              ELSE call_result.value = Some(Strip(text))
           /\ Truthy(call_result.value) <=>
                  /\ ~KindBeforeDone(lines, {"error", "nondict"})
                  /\ \E i \in 1..Len(text) : text[i] \notin Whitespace

\* A text that comes back without the space a delta of its own brought.
C34_Witness ==
    /\ StreamRead
    /\ call_proc.stdout = <<StreamLine("delta", <<" ">>), StreamLine("delta", <<"X">>),
                            StreamLine("done", <<>>)>>
    /\ call_result.value = Some(<<"X">>)

\* C34 as stated: the text returned is the joined deltas themselves, unless
\* they are empty or white space only.
C34_AsStated ==
    (StreamRead /\ ~KindBeforeDone(call_proc.stdout, {"error", "nondict"})) =>
        LET text == DeltaText(call_proc.stdout, DoneAt(call_proc.stdout) - 1)
        IN IF Strip(text) = <<>> THEN ~Truthy(call_result.value)
           ELSE call_result.value = Some(text)

====
